---- MODULE Spec2Model ----
(***************************************************************************)
(* Model of goshl's segment production core: Controller.Segment, the       *)
(* transcode Pool and Worker, and the NotifyingStorage facade, running     *)
(* against a Storage and a Coordinator (the two collaborator interfaces).  *)
(* Times are integers (seconds); the encoder is an external process that   *)
(* emits one filename per planned segment.                                 *)
(***************************************************************************)
EXTENDS Integers, Sequences, FiniteSets, Bags, TLC

(***************************************************************************)
(* Bounds of the model.                                                    *)
(***************************************************************************)
\* Highest segment index a caller asks for.
MaxIndex == 4
\* Number of Controller.Segment calls made in one behaviour.
MaxCalls == 2
\* Options.SegmentsPerJob as configured in the model (default 10).
SegmentsPerJob == 2
\* Number of steps of one behaviour in which a collaborator fails (Storage,
\* Coordinator, the file system or the encoder returns an error).
MaxFaults == 1

\* The goroutines that may call Controller.Segment (Spec schedules those in
\* Clients).
Callers == {"c1", "c2"}
VIDEO == "video"
AUDIO == "audio"
StreamTypes == {VIDEO, AUDIO}
NoJob == [ID |-> 0]
NoKey == [SourceURL |-> "", Index |-> -1, Rendition |-> "", IsVideo |-> FALSE]

(***************************************************************************)
(* Source metadata as the Prober stores it.  Source "a" is probed, source  *)
(* "b" has no metadata in Storage.                                         *)
(***************************************************************************)
Sources == {"a", "b"}
NoMeta == [Duration |-> -1]
MetaA ==
  [Duration |-> 18, Keyframes |-> <<0, 6, 12>>,
   Video |-> [Codec |-> "h264", Width |-> 1280, Height |-> 720, Bitrate |-> 0],
   Audios |-> <<[Codec |-> "aac", Channels |-> 2, Bitrate |-> 128000]>>]

(***************************************************************************)
(* Go integer division truncates toward zero.                              *)
(***************************************************************************)
GoDiv(a, b) == IF a >= 0 THEN a \div b ELSE -((-a) \div b)

(***************************************************************************)
(* rendition.GenerateVideo / GenerateAudio.                                *)
(***************************************************************************)
targetHeights == <<2160, 1080, 720, 480, 360>>
bitrateBounds ==
  [h \in {2160, 1080, 720, 480, 360} |->
     CASE h = 2160 -> [min |-> 8000000, max |-> 20000000]
       [] h = 1080 -> [min |-> 2000000, max |-> 8000000]
       [] h = 720 -> [min |-> 1000000, max |-> 4000000]
       [] h = 480 -> [min |-> 500000, max |-> 2000000]
       [] h = 360 -> [min |-> 300000, max |-> 1000000]]
\* Every codec of the sources is copied.
directStreamCodecsAll == {"h264", "hevc"}

directStreamCodecs == {"h264"}
passthroughCodecs == {"ac3", "eac3"}

estimateBitrate(height) ==
  IF height >= 2160 THEN 15000000
  ELSE IF height >= 1080 THEN 5000000
  ELSE IF height >= 720 THEN 2500000
  ELSE IF height >= 480 THEN 1200000
  ELSE 800000

\* int(float64(targetHeight) * (srcWidth / srcHeight)), rounded up to even.
calculateWidth(srcWidth, srcHeight, targetHeight) ==
  LET width == (targetHeight * srcWidth) \div srcHeight
  IN IF width % 2 # 0 THEN width + 1 ELSE width

\* The bitrate is raised to the minimum and never cut.
clampBitrateMinOnly(height, bitrate) ==
  IF height \notin DOMAIN bitrateBounds THEN bitrate
  ELSE IF bitrate < bitrateBounds[height].min THEN bitrateBounds[height].min
  ELSE bitrate

clampBitrate(height, bitrate) ==
  IF height \notin DOMAIN bitrateBounds THEN bitrate
  ELSE IF bitrate < bitrateBounds[height].min THEN bitrateBounds[height].min
  ELSE IF bitrate > bitrateBounds[height].max THEN bitrateBounds[height].max
  ELSE bitrate

HeightName(h) ==
  CASE h = 2160 -> "2160p" [] h = 1080 -> "1080p" [] h = 720 -> "720p"
    [] h = 480 -> "480p" [] h = 360 -> "360p"

\* int(float64(a) * (float64(b) / float64(c))) on the reduced fraction b / c.
RECURSIVE GCD(_, _)
GCD(a, b) == IF b = 0 THEN a ELSE GCD(b, a % b)
MulRatio(a, b, c) ==
  LET num == b \div GCD(b, c)
      den == c \div GCD(b, c)
  IN (a \div den) * num + ((a % den) * num) \div den

RECURSIVE GenerateVideoFrom(_, _)
GenerateVideoFrom(video, n) ==
  IF n > Len(targetHeights) THEN <<>>
  ELSE
    LET targetHeight == targetHeights[n]
        srcBitrate == IF video.Bitrate <= 0 THEN estimateBitrate(video.Height)
                      ELSE video.Bitrate
        srcPixels == video.Width * video.Height
        targetWidth == calculateWidth(video.Width, video.Height, targetHeight)
        targetPixels == targetWidth * targetHeight
        bitrate == clampBitrate(targetHeight, MulRatio(srcBitrate, targetPixels, srcPixels))
        method == IF video.Codec \in directStreamCodecs /\ targetHeight = video.Height
                  THEN "direct_stream" ELSE "transcode"
    IN IF targetHeight > video.Height THEN GenerateVideoFrom(video, n + 1)
       ELSE <<[Name |-> HeightName(targetHeight), Width |-> targetWidth,
               Height |-> targetHeight, Bitrate |-> bitrate, Method |-> method]>>
            \o GenerateVideoFrom(video, n + 1)

GenerateVideo(video) == GenerateVideoFrom(video, 1)

PassthroughName(codec) ==
  CASE codec = "ac3" -> "ac3_passthrough" [] codec = "eac3" -> "eac3_passthrough"

GenerateAudio(audio) ==
  <<[Name |-> "aac_stereo", Codec |-> "aac", Bitrate |-> 128000, Channels |-> 2,
     Method |-> "transcode"]>>
  \o (IF audio.Channels >= 6
      THEN <<[Name |-> "aac_surround", Codec |-> "aac", Bitrate |-> 384000,
              Channels |-> 6, Method |-> "transcode"]>>
      ELSE <<>>)
  \o (IF audio.Codec \in passthroughCodecs
      THEN <<[Name |-> PassthroughName(audio.Codec), Codec |-> audio.Codec, Bitrate |-> audio.Bitrate,
              Channels |-> audio.Channels, Method |-> "direct_stream"]>>
      ELSE <<>>)

\* Pool.findVideoRendition / findAudioRendition: the renditions with that name.
findVideoRendition(meta, name) ==
  SelectSeq(GenerateVideo(meta.Video), LAMBDA r : r.Name = name)

findAudioRendition(meta, name) ==
  IF Len(meta.Audios) = 0 THEN <<>>
  ELSE SelectSeq(GenerateAudio(meta.Audios[1]), LAMBDA r : r.Name = name)

(***************************************************************************)
(* Pool.extractSegments: the loop of the source, keyframes 1-based here.   *)
(* i is the Go loop variable plus one, idx the running segment index.      *)
(***************************************************************************)
poolTargetDuration == 6

\* The first j > i with keyframes[j] - start >= targetDuration, or 0.
RECURSIVE FirstSplit(_, _, _)
FirstSplit(keyframes, start, j) ==
  IF j > Len(keyframes) THEN 0
  ELSE IF keyframes[j] - start >= poolTargetDuration THEN j
  ELSE FirstSplit(keyframes, start, j + 1)

RECURSIVE extractFrom(_, _, _, _, _, _)
extractFrom(keyframes, duration, startIdx, endIdx, i, idx) ==
  IF i > Len(keyframes) THEN <<>>
  ELSE
    LET start == keyframes[i]
        j == FirstSplit(keyframes, start, i + 1)
        end0 == IF j # 0 THEN keyframes[j] ELSE 0
        \* after the inner loop: i = j - 1 when a split was found
        i1 == IF j # 0 THEN j - 1 ELSE i
        end == IF end0 # 0 THEN end0
               ELSE IF i1 < Len(keyframes) THEN keyframes[Len(keyframes)]
               ELSE duration
        i2 == IF end0 = 0 /\ i1 < Len(keyframes) THEN Len(keyframes) + 1 ELSE i1
        here == IF idx >= startIdx /\ idx <= endIdx
                THEN <<[Index |-> idx, Start |-> start, End |-> end,
                        Duration |-> end - start]>>
                ELSE <<>>
    IN IF idx + 1 > endIdx THEN here
       ELSE here \o extractFrom(keyframes, duration, startIdx, endIdx, i2 + 1, idx + 1)

extractSegments(keyframes, duration, startIdx, endIdx) ==
  extractFrom(keyframes, duration, startIdx, endIdx, 1, 0)

(***************************************************************************)
(* playlist.CalculateSegments: the segment list of the playlists.           *)
(***************************************************************************)
RECURSIVE CalculateFrom(_, _, _, _, _, _)
CalculateFrom(keyframes, targetDuration, i, segmentStart, segmentIndex, segments) ==
  IF i > Len(keyframes)
  THEN [segments |-> segments, segmentStart |-> segmentStart,
        segmentIndex |-> segmentIndex]
  ELSE IF keyframes[i] - segmentStart >= targetDuration
  THEN CalculateFrom(keyframes, targetDuration, i + 1, keyframes[i], segmentIndex + 1,
                     Append(segments,
                            [Index |-> segmentIndex, Start |-> segmentStart,
                             End |-> keyframes[i],
                             Duration |-> keyframes[i] - segmentStart]))
  ELSE CalculateFrom(keyframes, targetDuration, i + 1, segmentStart, segmentIndex,
                     segments)

CalculateSegments(keyframes, duration, targetDuration) ==
  IF Len(keyframes) = 0 THEN <<>>
  ELSE LET r == CalculateFrom(keyframes, targetDuration, 2, keyframes[1], 0, <<>>)
       IN IF r.segmentStart < duration
          THEN Append(r.segments,
                      [Index |-> r.segmentIndex, Start |-> r.segmentStart,
                       End |-> duration, Duration |-> duration - r.segmentStart])
          ELSE r.segments

\* Options.TargetDuration (seconds) as setDefaults leaves it.
TargetDuration == 6

(***************************************************************************)
(* Requests the callers make: every video index of the probed source, its  *)
(* first audio segment, an unknown rendition, and a source without         *)
(* metadata.                                                               *)
(***************************************************************************)
Key(src, isVideo, rend, idx) ==
  [SourceURL |-> src, Index |-> idx, Rendition |-> rend, IsVideo |-> isVideo]

Requests ==
  {Key("a", TRUE, "720p", i) : i \in 0..MaxIndex}
  \cup {Key("a", FALSE, "aac_stereo", 0)}
  \cup {Key("a", TRUE, "1080p", 0), Key("b", TRUE, "720p", 0)}

StreamTypeOf(info) == IF info.IsVideo THEN VIDEO ELSE AUDIO

\* What the encoder writes into the file of a segment: opaque, fixed by the key.
SegmentBytes(info) == [ts |-> info]
NoBytes == [ts |-> NoKey]

VARIABLES
  \* Storage
  metadata,     \* source -> Metadata or NoMeta
  store,        \* segment key -> bytes (the keys written so far)
  \* Controller
  opts,         \* Controller.opts as NewController leaves them
  playlist,     \* what the last VariantPlaylist call returned
  \* Prober
  probed,       \* the last Probe call: what it did and returned
  \* Coordinator
  queue,        \* stream type -> sequence of enqueued, undelivered jobs
  waitCh,       \* caller -> channel returned by WaitSegment
  acks,         \* stream type -> job ids passed to Ack by the loop since it took its job
  published,    \* stream type -> NotifySegment calls made since then, in order
  \* Controller.Segment calls
  pc,           \* caller -> position in Segment
  req,          \* caller -> SegmentData of the call in progress
  ret,          \* the call that returned last, until the next call: caller, key, result
  calls,        \* number of calls made
  nextID,       \* next fresh job id
  \* Pool (one per stream type) and its worker loop
  cancelSet,    \* stream type -> p.cancel # nil
  cancelled,    \* stream type -> the pool context is cancelled
  loop,         \* stream type -> position of the worker loop
  job,          \* stream type -> job in processJob
  \* Worker of the job in flight, and its encoder
  wjob,         \* stream type -> the job the Worker was built for (sourceURL, rendition)
  startErr,     \* stream type -> what the last Start of the Worker returned
  wstate,       \* stream type -> Worker.state
  werr,         \* stream type -> Worker.err
  run,          \* stream type -> position of the Worker.run goroutine
  skipFirst,    \* stream type -> the local skipFirst of Worker.run
  planned,      \* stream type -> indexes the encoder has still to emit
  params,       \* stream type -> what the command of the Worker was built from
  enc,          \* stream type -> encoder process
  tmpDir,       \* stream type -> the job's work directory exists
  stop,         \* position of Controller.Stop
  faults        \* number of steps so far in which a collaborator failed

storageVars == <<metadata, store, opts, playlist, probed>>
coordVars == <<queue, waitCh, acks, published>>
callVars == <<pc, req, ret, calls, nextID>>
poolVars == <<cancelSet, cancelled, loop, job, stop>>
workerVars == <<wjob, startErr, wstate, werr, run, skipFirst, planned, params, enc, tmpDir>>
vars == <<storageVars, coordVars, callVars, poolVars, workerVars, faults>>

\* A Go error is the chain of its texts, outermost first: fmt.Errorf("p: %w", e)
\* puts "p" in front of e, and err.Error() is the chain read in order.
NoError == <<>>
Wrap(prefix, err) == <<prefix>> \o err
\* What the collaborators of the tests fail with.
\* err.Error() of an error that wraps nothing.
ErrorText(err) == err[1]
StorageError == <<"boom">>
PubSubError == <<"pubsub err">>

NoChannel == [state |-> "none", error |-> ""]
EmptyChannel == [state |-> "empty", error |-> ""]
Bytes(data) == [kind |-> "bytes", data |-> data, error |-> ""]
Failure(kind, msg) == [kind |-> kind, data |-> NoBytes, error |-> msg]
\* No call has returned since the last call began.  prior: the bytes the call
\* before returned, when it was for the same key.
NoReturn ==
  [caller |-> "", info |-> NoKey, result |-> Failure("none", ""), waited |-> FALSE,
   enqueued |-> FALSE, prior |-> NoBytes]

\* No command has been built.
NoParams == [Segments |-> <<>>, ActualSeekKeyframe |-> 0]

\* No Probe call has returned.
NoProbe == [n |-> 0, sourceURL |-> "", tool |-> 0, sets |-> 0, meta |-> NoMeta,
            err |-> NoError]

\* No VariantPlaylist call has returned.
NoPlaylist == [kind |-> "none"]

\* NewController(options) on a Storage that holds metaA for source "a".
NewController(metaA, options) ==
  /\ metadata = [s \in Sources |-> IF s = "a" THEN metaA ELSE NoMeta]
  /\ opts = [TargetDuration |-> IF options.TargetDuration = 0 THEN TargetDuration
                                ELSE options.TargetDuration]
  /\ playlist = NoPlaylist
  /\ probed = NoProbe
  /\ store = <<>>
  /\ queue = [t \in StreamTypes |-> <<>>]
  /\ waitCh = [c \in Callers |-> NoChannel]
  /\ acks = [t \in StreamTypes |-> <<>>]
  /\ published = [t \in StreamTypes |-> <<>>]
  /\ pc = [c \in Callers |-> "idle"]
  /\ req = [c \in Callers |-> NoKey]
  /\ ret = NoReturn
  /\ calls = 0
  /\ nextID = 1
  /\ cancelSet = [t \in StreamTypes |-> FALSE]
  /\ cancelled = [t \in StreamTypes |-> FALSE]
  /\ loop = [t \in StreamTypes |-> "off"]
  /\ job = [t \in StreamTypes |-> NoJob]
  /\ wjob = [t \in StreamTypes |-> NoJob]
  /\ startErr = [t \in StreamTypes |-> "none"]
  /\ wstate = [t \in StreamTypes |-> "idle"]
  /\ werr = [t \in StreamTypes |-> NoError]
  /\ run = [t \in StreamTypes |-> "none"]
  /\ skipFirst = [t \in StreamTypes |-> FALSE]
  /\ planned = [t \in StreamTypes |-> <<>>]
  /\ params = [t \in StreamTypes |-> NoParams]
  /\ enc = [t \in StreamTypes |-> "none"]
  /\ tmpDir = [t \in StreamTypes |-> FALSE]
  /\ stop = "none"
  /\ faults = 0

\* The Controller of the default options.
InitWith(metaA) == NewController(metaA, [TargetDuration |-> 0])

Init == InitWith(MetaA)

(***************************************************************************)
(* Storage and Coordinator, the collaborator interfaces.                   *)
(***************************************************************************)
SegmentExists(info) == info \in DOMAIN store

\* bytes of a key; a key never written reads as nil bytes
ReadSegment(info) == IF info \in DOMAIN store THEN store[info] ELSE NoBytes

StorageWrite(st, info, data) ==
  [k \in DOMAIN st \cup {info} |-> IF k = info THEN data ELSE st[k]]

\* Coordinator.NotifySegment: the status reaches every waiter registered for
\* the key whose channel is still empty.
Deliver(ch, info, state, error) ==
  [c \in Callers |->
     IF ch[c].state = "empty" /\ req[c] = info
     THEN [state |-> state, error |-> error] ELSE ch[c]]

Note(info, state, error, j) ==
  [info |-> info, state |-> state, error |-> error, job |-> j]

(***************************************************************************)
(* Controller.Segment                                                      *)
(***************************************************************************)
\* What the previous call returned for the key, if it returned bytes for it.
Prior(info) ==
  IF ret.result.kind = "bytes" /\ ret.info = info THEN ret.result.data
  ELSE IF ret.result.kind = "none" THEN ret.prior
  ELSE NoBytes

\* Segment returns r; the call's channel is dropped with it.
Return(c, info, r, didWait, didEnqueue) ==
  /\ pc' = [pc EXCEPT ![c] = "idle"]
  /\ req' = [req EXCEPT ![c] = NoKey]
  /\ waitCh' = [waitCh EXCEPT ![c] = NoChannel]
  /\ ret' = [caller |-> c, info |-> info, result |-> r, waited |-> didWait,
             enqueued |-> didEnqueue, prior |-> Prior(info)]

\* Segment returns empty data instead of what ReadSegment gave.
ReadResultEmpty(info, readOk) == Bytes(NoBytes)

\* Storage.ReadSegment as Segment returns it.
ReadResult(info, readOk) ==
  IF readOk THEN Bytes(ReadSegment(info)) ELSE Failure("error", "read segment")

\* Segment without the SegmentExists shortcut: every call waits and enqueues.
SegmentCallAlwaysMiss(c, info, existsOk, readOk) ==
  /\ pc[c] = "idle"
  /\ calls < MaxCalls
  /\ calls' = calls + 1
  /\ pc' = [pc EXCEPT ![c] = "wait"]
  /\ req' = [req EXCEPT ![c] = info]
  /\ ret' = [NoReturn EXCEPT !.prior = Prior(info)]
  /\ UNCHANGED waitCh
  /\ UNCHANGED <<storageVars, queue, acks, published, nextID, poolVars, workerVars>>

\* Entry, SegmentExists and the cache hit.
\* (callers are interchangeable: the first call of a behaviour is c1's)
SegmentCall(c, info, existsOk, readOk) ==
  /\ pc[c] = "idle"
  /\ calls < MaxCalls
  /\ calls = 0 => c = "c1"
  /\ calls' = calls + 1
  /\ IF ~existsOk THEN Return(c, info, Failure("error", "check segment"), FALSE, FALSE)
     ELSE IF SegmentExists(info) THEN Return(c, info, ReadResult(info, readOk), FALSE, FALSE)
     ELSE /\ pc' = [pc EXCEPT ![c] = "wait"]
          /\ req' = [req EXCEPT ![c] = info]
          /\ ret' = [NoReturn EXCEPT !.prior = Prior(info)]
          /\ UNCHANGED waitCh
  /\ UNCHANGED <<storageVars, queue, acks, published, nextID, poolVars, workerVars>>

\* Segment goes on to Enqueue without a registered waiter.
SegmentWaitUnregistered(c, ok) ==
  /\ pc[c] = "wait"
  /\ pc' = [pc EXCEPT ![c] = "enqueue"]
  /\ UNCHANGED <<req, ret, waitCh>>
  /\ UNCHANGED <<storageVars, queue, acks, published, calls, nextID, poolVars,
                 workerVars>>

\* Coordinator.WaitSegment
SegmentWait(c, ok) ==
  /\ pc[c] = "wait"
  /\ IF ok
     THEN /\ waitCh' = [waitCh EXCEPT ![c] = EmptyChannel]
          /\ pc' = [pc EXCEPT ![c] = "enqueue"]
          /\ UNCHANGED <<req, ret>>
     ELSE Return(c, req[c], Failure("error", "wait segment"), FALSE, FALSE)
  /\ UNCHANGED <<storageVars, queue, acks, published, calls, nextID, poolVars,
                 workerVars>>

\* The batch starts at the requested index instead of at a multiple of
\* SegmentsPerJob.
BatchJobFromIndex(id, info) ==
  [ID |-> id, SourceURL |-> info.SourceURL, Rendition |-> info.Rendition,
   StreamType |-> StreamTypeOf(info), StartIndex |-> info.Index,
   EndIndex |-> info.Index + SegmentsPerJob - 1]

\* Controller.enqueueSegment: the job covering the index.
BatchJob(id, info) ==
  LET startIdx == GoDiv(info.Index, SegmentsPerJob) * SegmentsPerJob
      endIdx == startIdx + SegmentsPerJob - 1
  IN [ID |-> id, SourceURL |-> info.SourceURL, Rendition |-> info.Rendition,
      StreamType |-> StreamTypeOf(info), StartIndex |-> startIdx, EndIndex |-> endIdx]

\* Enqueue that skips a job whose batch is already in the queue.
SegmentEnqueueDeduplicates(c, ok) ==
  /\ pc[c] = "enqueue"
  /\ nextID' = nextID + 1
  /\ IF ok
     THEN /\ queue' = [queue EXCEPT ![StreamTypeOf(req[c])] =
                         IF \E n \in DOMAIN @ :
                              [@[n] EXCEPT !.ID = nextID] = BatchJob(nextID, req[c])
                         THEN @
                         ELSE Append(@, BatchJob(nextID, req[c]))]
          /\ pc' = [pc EXCEPT ![c] = "select"]
          /\ UNCHANGED <<req, waitCh, ret>>
     ELSE /\ Return(c, req[c], Failure("error", "enqueue"), TRUE, FALSE)
          /\ UNCHANGED queue
  /\ UNCHANGED <<storageVars, acks, published, calls, poolVars, workerVars>>

SegmentEnqueue(c, ok) ==
  /\ pc[c] = "enqueue"
  /\ nextID' = nextID + 1
  /\ IF ok
     THEN /\ queue' = [queue EXCEPT ![StreamTypeOf(req[c])] =
                         Append(@, BatchJob(nextID, req[c]))]
          /\ pc' = [pc EXCEPT ![c] = "select"]
          /\ UNCHANGED <<req, waitCh, ret>>
     ELSE /\ Return(c, req[c], Failure("error", "enqueue"), TRUE, FALSE)
          /\ UNCHANGED queue
  /\ UNCHANGED <<storageVars, acks, published, calls, poolVars, workerVars>>

\* select: case <-ctx.Done()
\* The cancelled call takes the job it enqueued out of the queue.
SegmentCancelledWithdraws(c) ==
  /\ pc[c] = "select"
  /\ Return(c, req[c], Failure("cancelled", "context canceled"), TRUE, TRUE)
  /\ queue' = [queue EXCEPT ![StreamTypeOf(req[c])] =
                 SelectSeq(@, LAMBDA j : j.ID # nextID - 1)]
  /\ UNCHANGED <<storageVars, acks, published, calls, nextID, poolVars,
                 workerVars>>

SegmentCancelled(c) ==
  /\ pc[c] = "select"
  /\ Return(c, req[c], Failure("cancelled", "context canceled"), TRUE, TRUE)
  /\ UNCHANGED <<storageVars, queue, acks, published, calls, nextID, poolVars,
                 workerVars>>

\* A select without the timeout case.
SegmentTimeoutNever(c) ==
  /\ FALSE
  /\ UNCHANGED vars

\* select: case <-time.After(SegmentTimeout)
SegmentTimeout(c) ==
  /\ pc[c] = "select"
  /\ Return(c, req[c], Failure("timeout", "timeout waiting for segment"), TRUE, TRUE)
  /\ UNCHANGED <<storageVars, queue, acks, published, calls, nextID, poolVars,
                 workerVars>>

\* Segment reads the segment on any status, without looking at status.State.
SegmentStatusAnyState(c, readOk) ==
  /\ pc[c] = "select"
  /\ waitCh[c].state \in {"ready", "error"}
  /\ Return(c, req[c], ReadResult(req[c], readOk), TRUE, TRUE)
  /\ UNCHANGED <<storageVars, queue, acks, published, calls, nextID, poolVars,
                 workerVars>>

\* Segment reports an error status without the producer's error string.
SegmentStatusDropsError(c, readOk) ==
  /\ pc[c] = "select"
  /\ waitCh[c].state \in {"ready", "error"}
  /\ IF waitCh[c].state = "error"
     THEN Return(c, req[c], Failure("segment error", ""), TRUE, TRUE)
     ELSE Return(c, req[c], ReadResult(req[c], readOk), TRUE, TRUE)
  /\ UNCHANGED <<storageVars, queue, acks, published, calls, nextID, poolVars,
                 workerVars>>

\* select: case status := <-statusCh
SegmentStatus(c, readOk) ==
  /\ pc[c] = "select"
  /\ waitCh[c].state \in {"ready", "error"}
  /\ IF waitCh[c].state = "error"
     THEN Return(c, req[c], Failure("segment error", waitCh[c].error), TRUE, TRUE)
     ELSE Return(c, req[c], ReadResult(req[c], readOk), TRUE, TRUE)
  /\ UNCHANGED <<storageVars, queue, acks, published, calls, nextID, poolVars,
                 workerVars>>

(***************************************************************************)
(* Controller.Start / Stop and Pool.Start / Stop                           *)
(***************************************************************************)
\* Controller.Start: Pool.Start of the video pool, then of the audio pool.
\* Pool.Start fails when p.cancel is already set; else it sets p.cancel,
\* subscribes and, if that succeeds, spawns the worker loop.
ControllerStart(videoOk, audioOk) ==
  /\ ~cancelSet[VIDEO]
  /\ cancelSet' = [t \in StreamTypes |-> (t = VIDEO) \/ cancelSet[t] \/ videoOk]
  /\ loop' = [t \in StreamTypes |->
                IF t = VIDEO THEN (IF videoOk THEN "idle" ELSE loop[t])
                ELSE IF videoOk /\ ~cancelSet[t] /\ audioOk THEN "idle" ELSE loop[t]]
  /\ UNCHANGED <<storageVars, coordVars, callVars, cancelled, job, stop, workerVars>>

Joined(t) == loop[t] \in {"off", "exited"}

\* Pool.Stop of one pool: cancel (when started), then wg.Wait().
PoolCancel(t) == [cancelled EXCEPT ![t] = cancelSet[t]]

\* Controller.Stop: videoPool.Stop() then audioPool.Stop().
ControllerStopVideo ==
  /\ stop = "none"
  /\ cancelled' = PoolCancel(VIDEO)
  /\ stop' = "video"
  /\ UNCHANGED <<storageVars, coordVars, callVars, cancelSet, loop, job, workerVars>>

\* videoPool.Stop returns without wg.Wait.
ControllerStopAudioUnjoined ==
  /\ stop = "video"
  /\ cancelled' = PoolCancel(AUDIO)
  /\ stop' = "audio"
  /\ UNCHANGED <<storageVars, coordVars, callVars, cancelSet, loop, job, workerVars>>

ControllerStopAudio ==
  /\ stop = "video"
  /\ Joined(VIDEO)
  /\ cancelled' = PoolCancel(AUDIO)
  /\ stop' = "audio"
  /\ UNCHANGED <<storageVars, coordVars, callVars, cancelSet, loop, job, workerVars>>

ControllerStopDone ==
  /\ stop = "audio"
  /\ Joined(AUDIO)
  /\ stop' = "done"
  /\ UNCHANGED <<storageVars, coordVars, callVars, cancelSet, cancelled, loop, job,
                 workerVars>>

(***************************************************************************)
(* Pool.worker                                                             *)
(***************************************************************************)
\* case job, ok := <-jobs
PoolWorkerReceive(t) ==
  /\ loop[t] = "idle"
  /\ queue[t] # <<>>
  /\ job' = [job EXCEPT ![t] = Head(queue[t])]
  /\ queue' = [queue EXCEPT ![t] = Tail(@)]
  /\ acks' = [acks EXCEPT ![t] = <<>>]
  /\ published' = [published EXCEPT ![t] = <<>>]
  /\ loop' = [loop EXCEPT ![t] = "processJob"]
  /\ UNCHANGED <<storageVars, waitCh, callVars, cancelSet, cancelled, stop, workerVars>>

\* case <-ctx.Done()
PoolWorkerExit(t) ==
  /\ loop[t] = "idle"
  /\ cancelled[t]
  /\ loop' = [loop EXCEPT ![t] = "exited"]
  /\ UNCHANGED <<storageVars, coordVars, callVars, cancelSet, cancelled, job, stop,
                 workerVars>>

(***************************************************************************)
(* Pool.publishError: one error status per index of the job's range.       *)
(***************************************************************************)
JobKey(t, j, i) ==
  [SourceURL |-> j.SourceURL, Index |-> i, Rendition |-> j.Rendition,
   IsVideo |-> (t = VIDEO)]

publishErrorRange(j) == j.StartIndex .. j.EndIndex

\* publishError reports the first index of the range only.
publishErrorNotesFirst(t, j, err) ==
  <<Note(JobKey(t, j, j.StartIndex), "error", err, j.ID)>>

publishErrorNotes(t, j, err) ==
  [n \in 1..(j.EndIndex - j.StartIndex + 1) |->
     Note(JobKey(t, j, j.StartIndex + n - 1), "error", err, j.ID)]

publishErrorDeliver(ch, t, j, err) ==
  [c \in Callers |->
     IF /\ ch[c].state = "empty"
        /\ \E i \in publishErrorRange(j) : req[c] = JobKey(t, j, i)
     THEN [state |-> "error", error |-> err] ELSE ch[c]]

\* processJob returns after publishError: the job is not acknowledged.
PublishErrorAndReturn(t, err, notifyOk) ==
  /\ published' = [published EXCEPT ![t] = @ \o publishErrorNotes(t, job[t], err)]
  /\ waitCh' = IF notifyOk THEN publishErrorDeliver(waitCh, t, job[t], err) ELSE waitCh
  /\ loop' = [loop EXCEPT ![t] = "idle"]
  /\ UNCHANGED <<storageVars, queue, acks, callVars, cancelSet, cancelled, job, stop,
                 workerVars>>

(***************************************************************************)
(* Pool.processJob up to Worker.Start                                      *)
(***************************************************************************)
\* skipFirst set for every later batch, the segment list left as it is.
VideoPlanSkipOnly(meta, j, segments) ==
  [segments |-> segments, skipFirst |-> j.StartIndex > 0]

\* The command is built over the range of the job as it is.
VideoPlanUnwidened(meta, j, segments) ==
  [segments |-> segments, skipFirst |-> FALSE]

\* The segments handed to the command builder and the worker's skipFirst.
VideoPlan(meta, j, segments) ==
  LET overlapSegments ==
        extractSegments(meta.Keyframes, meta.Duration, j.StartIndex - 1, j.EndIndex)
  IN IF j.StartIndex > 0 /\ Len(overlapSegments) > Len(segments)
     THEN [segments |-> overlapSegments, skipFirst |-> TRUE]
     ELSE [segments |-> segments, skipFirst |-> FALSE]

AudioPlan(meta, j, segments) == [segments |-> segments, skipFirst |-> FALSE]

\* findNearestKeyframe, on times in thousandths of a second: 0.001 is 1 and
\* 0.01 is 10.  walk: the loop over the keyframes up to the first one behind
\* target + 0.001.
RECURSIVE nearestWalk(_, _, _, _)
nearestWalk(keyframes, target, prevKeyframe, result) ==
  IF keyframes = <<>> \/ Head(keyframes) > target + 1
  THEN [prevKeyframe |-> prevKeyframe, result |-> result]
  ELSE nearestWalk(Tail(keyframes), target, result, Head(keyframes))

findNearestKeyframe(keyframes, target) ==
  IF Len(keyframes) = 0 THEN 0
  ELSE LET w == nearestWalk(keyframes, target, 0, 0)
       IN IF w.prevKeyframe > 0 /\ target - w.result < 10 THEN w.prevKeyframe
          ELSE w.result

\* float64 seconds in thousandths.
Millis(seconds) == 1000 * seconds

\* ffmpeg.VideoParams / AudioParams as processJob fills them: the segments and,
\* for a direct-stream video rendition, the keyframe to seek to.
BuilderParams(t, meta, j, segments) ==
  [Segments |-> segments,
   ActualSeekKeyframe |->
     IF /\ t = VIDEO /\ Len(segments) > 0
        /\ findVideoRendition(meta, j.Rendition) # <<>>
        /\ findVideoRendition(meta, j.Rendition)[1].Method = "direct_stream"
     THEN findNearestKeyframe([n \in DOMAIN meta.Keyframes |-> Millis(meta.Keyframes[n])],
                              Millis(segments[1].Start))
     ELSE 0]

\* A line of the encoder's output, without its ".ts", is the sequence of its
\* parts between "-": words, and numbers as strconv.Atoi reads them.
Word(text) == [isNumber |-> FALSE, value |-> 0, text |-> text]
Number(n) == [isNumber |-> TRUE, value |-> n, text |-> ""]
EmptyLine == <<Word("")>>

\* The encoder's output pattern segment-%05d.ts.
Filename(idx) == <<Word("segment"), Number(idx)>>

\* The encoder numbers its files from the first planned segment's index
\* (-segment_start_number) and emits one filename per planned segment.
\* The files are numbered from 0.
EncoderPlanFromZero(segments) ==
  [n \in 1..Len(segments) |-> Filename(n - 1)]

EncoderPlan(segments) ==
  [n \in 1..Len(segments) |-> Filename(segments[1].Index + n - 1)]

WorkerStart(t, plan) ==
  /\ wjob' = [wjob EXCEPT ![t] = job[t]]
  /\ startErr' = [startErr EXCEPT ![t] = "nil"]
  /\ wstate' = [wstate EXCEPT ![t] = "running"]
  /\ werr' = [werr EXCEPT ![t] = NoError]
  /\ run' = [run EXCEPT ![t] = "scan"]
  /\ skipFirst' = [skipFirst EXCEPT ![t] = plan.skipFirst]
  /\ planned' = [planned EXCEPT ![t] = EncoderPlan(plan.segments)]
  /\ params' = [params EXCEPT ![t] =
                  BuilderParams(t, metadata[job[t].SourceURL], job[t], plan.segments)]
  /\ enc' = [enc EXCEPT ![t] = "running"]
  /\ tmpDir' = [tmpDir EXCEPT ![t] = TRUE]
  /\ loop' = [loop EXCEPT ![t] = "waitForWorker"]
  /\ UNCHANGED <<storageVars, coordVars, callVars, cancelSet, cancelled, job, stop>>

ProcessJob(t, metaOk, mkdirOk, startOk, notifyOk) ==
  /\ loop[t] = "processJob"
  /\ LET j == job[t]
         meta == metadata[j.SourceURL]
     IN IF ~metaOk \/ meta = NoMeta
        THEN PublishErrorAndReturn(t, "get metadata", notifyOk)
        ELSE
          LET segments ==
                extractSegments(meta.Keyframes, meta.Duration, j.StartIndex, j.EndIndex)
              renditions == IF t = VIDEO THEN findVideoRendition(meta, j.Rendition)
                            ELSE findAudioRendition(meta, j.Rendition)
              plan == IF t = VIDEO THEN VideoPlan(meta, j, segments)
                      ELSE AudioPlan(meta, j, segments)
          IN IF Len(segments) = 0
             THEN PublishErrorAndReturn(t, "no segments for range", notifyOk)
             ELSE IF ~mkdirOk
             THEN PublishErrorAndReturn(t, "create temp dir", notifyOk)
             ELSE IF Len(renditions) = 0
             THEN PublishErrorAndReturn(t, "rendition not found", notifyOk)
             \* cmd.Start fails, also when the context is already cancelled
             ELSE IF ~startOk \/ cancelled[t]
             THEN PublishErrorAndReturn(t, "start encoder", notifyOk)
             ELSE WorkerStart(t, plan)

(***************************************************************************)
(* Worker.run, Worker.uploadSegment and NotifyingStorage.WriteSegment      *)
(***************************************************************************)
\* parseSegmentIndex: of the parts between "-", the last must be a number
\* (-1: no index).
parseSegmentIndex(filename) ==
  IF Len(filename) < 2 \/ ~filename[Len(filename)].isNumber THEN -1
  ELSE filename[Len(filename)].value

setError(t, err) ==
  /\ wstate' = [wstate EXCEPT ![t] = "error"]
  /\ werr' = [werr EXCEPT ![t] = err]

UploadKey(t, idx) == JobKey(t, wjob[t], idx)

Publish(t, note) == published' = [published EXCEPT ![t] = Append(@, note)]

\* WriteSegment goes on to the ready status without the underlying write.
NotifyingWriteUnwritten(t, info, writeOk, notifyOk) ==
  /\ run' = [run EXCEPT ![t] = "notify"]
  /\ UNCHANGED <<store, published, waitCh, wstate, werr>>

\* WriteSegment returns the wrapped error of a failed write without a status.
NotifyingWriteSilent(t, info, writeOk, notifyOk) ==
  IF writeOk
  THEN /\ store' = StorageWrite(store, info, SegmentBytes(info))
       /\ run' = [run EXCEPT ![t] = "notify"]
       /\ UNCHANGED <<published, waitCh, wstate, werr>>
  ELSE /\ setError(t, Wrap("write segment", Wrap("storage write", StorageError)))
       /\ run' = [run EXCEPT ![t] = "waitAfterError"]
       /\ UNCHANGED <<store, published, waitCh>>

\* NotifyingStorage.WriteSegment, first half: the underlying write, and the
\* error status when it fails.
NotifyingWrite(t, info, writeOk, notifyOk) ==
  IF writeOk
  THEN /\ store' = StorageWrite(store, info, SegmentBytes(info))
       /\ run' = [run EXCEPT ![t] = "notify"]
       /\ UNCHANGED <<published, waitCh, wstate, werr>>
  ELSE /\ Publish(t, Note(info, "error", ErrorText(StorageError), wjob[t].ID))
       /\ waitCh' = IF notifyOk THEN Deliver(waitCh, info, "error", ErrorText(StorageError))
                    ELSE waitCh
       /\ setError(t, Wrap("write segment", Wrap("storage write", StorageError)))
       /\ run' = [run EXCEPT ![t] = "waitAfterError"]
       /\ UNCHANGED store

\* The scanner uploads the first file although skipFirst is set.
WorkerRunScanKeepsFirst(t, fileOk, writeOk, notifyOk) ==
  /\ run[t] = "scan"
  /\ planned[t] # <<>>
  /\ LET filename == Head(planned[t])
         idx == parseSegmentIndex(filename)
     IN IF cancelled[t]
        THEN /\ run' = [run EXCEPT ![t] = "waitAfterCancel"]
             /\ UNCHANGED <<store, published, waitCh, wstate, werr, skipFirst, planned>>
        ELSE IF filename = EmptyLine \/ idx = -1
        THEN /\ planned' = [planned EXCEPT ![t] = Tail(@)]
             /\ UNCHANGED <<store, published, waitCh, wstate, werr, run, skipFirst>>
        ELSE IF ~fileOk
        THEN /\ setError(t, Wrap("read segment file", <<"open">>))
             /\ run' = [run EXCEPT ![t] = "waitAfterError"]
             /\ UNCHANGED <<store, published, waitCh, skipFirst, planned>>
        ELSE /\ NotifyingWrite(t, UploadKey(t, idx), writeOk, notifyOk)
             /\ skipFirst' = [skipFirst EXCEPT ![t] = FALSE]
             /\ UNCHANGED planned
  /\ UNCHANGED <<metadata, opts, playlist, probed, queue, acks, callVars, poolVars, wjob, params, startErr,
               enc, tmpDir>>

\* One line of the encoder's output read by the scanner.
WorkerRunScan(t, fileOk, writeOk, notifyOk) ==
  /\ run[t] = "scan"
  /\ planned[t] # <<>>
  /\ LET filename == Head(planned[t])
         idx == parseSegmentIndex(filename)
     IN IF cancelled[t]
        THEN \* case <-ctx.Done(): w.cmd.Wait(); return
             /\ run' = [run EXCEPT ![t] = "waitAfterCancel"]
             /\ UNCHANGED <<store, published, waitCh, wstate, werr, skipFirst, planned>>
        ELSE IF filename = EmptyLine
        THEN /\ planned' = [planned EXCEPT ![t] = Tail(@)]
             /\ UNCHANGED <<store, published, waitCh, wstate, werr, run, skipFirst>>
        ELSE IF skipFirst[t]
        THEN /\ skipFirst' = [skipFirst EXCEPT ![t] = FALSE]
             /\ planned' = [planned EXCEPT ![t] = Tail(@)]
             /\ UNCHANGED <<store, published, waitCh, wstate, werr, run>>
        ELSE IF idx = -1
        THEN /\ planned' = [planned EXCEPT ![t] = Tail(@)]
             /\ UNCHANGED <<store, published, waitCh, wstate, werr, run, skipFirst>>
        ELSE IF ~fileOk
        THEN /\ setError(t, Wrap("read segment file", <<"open">>))
             /\ run' = [run EXCEPT ![t] = "waitAfterError"]
             /\ UNCHANGED <<store, published, waitCh, skipFirst, planned>>
        ELSE /\ NotifyingWrite(t, UploadKey(t, idx), writeOk, notifyOk)
             /\ UNCHANGED <<skipFirst, planned>>
  /\ UNCHANGED <<metadata, opts, playlist, probed, queue, acks, callVars, poolVars, wjob, params, startErr,
               enc, tmpDir>>

\* WriteSegment returns nil although the ready status could not be published.
WorkerRunNotifyIgnoresFailure(t, notifyOk) ==
  /\ run[t] = "notify"
  /\ LET info == UploadKey(t, parseSegmentIndex(Head(planned[t])))
     IN /\ Publish(t, Note(info, "ready", "", wjob[t].ID))
        /\ waitCh' = IF notifyOk THEN Deliver(waitCh, info, "ready", "") ELSE waitCh
        /\ planned' = [planned EXCEPT ![t] = Tail(@)]
        /\ run' = [run EXCEPT ![t] = "scan"]
        /\ UNCHANGED <<wstate, werr>>
  /\ UNCHANGED <<storageVars, queue, acks, callVars, poolVars, wjob, params, startErr, skipFirst, enc,
                 tmpDir>>

\* NotifyingStorage.WriteSegment, second half: the ready status.
WorkerRunNotify(t, notifyOk) ==
  /\ run[t] = "notify"
  /\ LET info == UploadKey(t, parseSegmentIndex(Head(planned[t])))
     IN /\ Publish(t, Note(info, "ready", "", wjob[t].ID))
        /\ IF notifyOk
           THEN /\ waitCh' = Deliver(waitCh, info, "ready", "")
                /\ planned' = [planned EXCEPT ![t] = Tail(@)]
                /\ run' = [run EXCEPT ![t] = "scan"]
                /\ UNCHANGED <<wstate, werr>>
           ELSE /\ setError(t, Wrap("write segment", Wrap("notify segment", PubSubError)))
                /\ run' = [run EXCEPT ![t] = "waitAfterError"]
                /\ UNCHANGED <<waitCh, planned>>
  /\ UNCHANGED <<storageVars, queue, acks, callVars, poolVars, wjob, params, startErr, skipFirst, enc,
                 tmpDir>>

\* The exit status of the encoder is not looked at.
WorkerRunEOFAlwaysDone(t, code) ==
  /\ run[t] = "scan"
  /\ code = 0 => planned[t] = <<>>
  /\ wstate' = [wstate EXCEPT ![t] = "done"]
  /\ run' = [run EXCEPT ![t] = "returned"]
  /\ enc' = [enc EXCEPT ![t] = "exited"]
  /\ UNCHANGED <<storageVars, coordVars, callVars, poolVars, wjob, params, startErr, werr,
                 skipFirst, planned, tmpDir>>

\* The encoder closes its output and exits: with status zero once it has
\* emitted every planned file, with an error at any time (a failure, or
\* killed through its context).  cmd.Wait and the final state.
WorkerRunEOF(t, code) ==
  /\ run[t] = "scan"
  /\ code = 0 => planned[t] = <<>>
  /\ IF code # 0 /\ ~cancelled[t]
     THEN setError(t, <<"exit status">>)
     ELSE /\ wstate' = [wstate EXCEPT ![t] = "done"]
          /\ UNCHANGED werr
  /\ run' = [run EXCEPT ![t] = "returned"]
  /\ enc' = [enc EXCEPT ![t] = "exited"]
  /\ UNCHANGED <<storageVars, coordVars, callVars, poolVars, wjob, params, startErr, skipFirst, planned,
                 tmpDir>>

\* run returns after an upload error without cmd.Wait.
WorkerRunWaitAbandons(t) ==
  /\ run[t] \in {"waitAfterError", "waitAfterCancel"}
  /\ run' = [run EXCEPT ![t] = "returned"]
  /\ UNCHANGED <<storageVars, coordVars, callVars, poolVars, wjob, params, startErr, wstate, werr,
                 skipFirst, planned, enc, tmpDir>>

\* w.cmd.Wait(); return after an upload error or a cancelled context.
WorkerRunWait(t) ==
  /\ run[t] \in {"waitAfterError", "waitAfterCancel"}
  /\ run' = [run EXCEPT ![t] = "returned"]
  /\ enc' = [enc EXCEPT ![t] = "exited"]
  /\ UNCHANGED <<storageVars, coordVars, callVars, poolVars, wjob, params, startErr, wstate, werr,
                 skipFirst, planned, tmpDir>>

\* A second Start spawns the encoder again.
WorkerStartAgainRestarts(t) ==
  /\ wjob[t] # NoJob
  /\ wstate[t] # "idle"
  /\ startErr' = [startErr EXCEPT ![t] = "worker already started"]
  /\ wstate' = [wstate EXCEPT ![t] = "running"]
  /\ enc' = [enc EXCEPT ![t] = "running"]
  /\ UNCHANGED <<storageVars, coordVars, callVars, poolVars, wjob, params, werr, run,
                 skipFirst, planned, tmpDir>>

\* Worker.Start on a Worker that has been started: state != idle.
WorkerStartAgain(t) ==
  /\ wjob[t] # NoJob
  /\ wstate[t] # "idle"
  /\ startErr' = [startErr EXCEPT ![t] = "worker already started"]
  /\ UNCHANGED <<storageVars, coordVars, callVars, poolVars, wjob, params, wstate, werr, run,
                 skipFirst, planned, enc, tmpDir>>

\* processJob returns without removing the work directory.
WaitForWorkerKeepsDir(t) ==
  /\ loop[t] = "waitForWorker"
  /\ wstate[t] # "running" \/ cancelled[t]
  /\ acks' = [acks EXCEPT ![t] = Append(@, job[t].ID)]
  /\ UNCHANGED tmpDir
  /\ loop' = [loop EXCEPT ![t] = "idle"]
  /\ IF run[t] = "returned"
     THEN /\ wjob' = [wjob EXCEPT ![t] = NoJob]
          /\ startErr' = [startErr EXCEPT ![t] = "none"]
          /\ wstate' = [wstate EXCEPT ![t] = "idle"]
          /\ werr' = [werr EXCEPT ![t] = NoError]
          /\ run' = [run EXCEPT ![t] = "none"]
          /\ skipFirst' = [skipFirst EXCEPT ![t] = FALSE]
          /\ planned' = [planned EXCEPT ![t] = <<>>]
          /\ params' = [params EXCEPT ![t] = NoParams]
          /\ enc' = [enc EXCEPT ![t] = "none"]
     ELSE UNCHANGED <<wjob, startErr, wstate, werr, run, skipFirst, planned, params, enc>>
  /\ UNCHANGED <<storageVars, queue, waitCh, published, callVars, cancelSet, cancelled,
                 job, stop>>

(***************************************************************************)
(* Pool.waitForWorker and the end of processJob: Ack, remove the work dir. *)
(* A Worker whose goroutine has returned is unreachable afterwards.        *)
(***************************************************************************)
WaitForWorker(t) ==
  /\ loop[t] = "waitForWorker"
  /\ wstate[t] # "running" \/ cancelled[t]
  /\ acks' = [acks EXCEPT ![t] = Append(@, job[t].ID)]
  /\ tmpDir' = [tmpDir EXCEPT ![t] = FALSE]
  /\ loop' = [loop EXCEPT ![t] = "idle"]
  /\ IF run[t] = "returned"
     THEN /\ wjob' = [wjob EXCEPT ![t] = NoJob]
          /\ startErr' = [startErr EXCEPT ![t] = "none"]
          /\ wstate' = [wstate EXCEPT ![t] = "idle"]
          /\ werr' = [werr EXCEPT ![t] = NoError]
          /\ run' = [run EXCEPT ![t] = "none"]
          /\ skipFirst' = [skipFirst EXCEPT ![t] = FALSE]
          /\ planned' = [planned EXCEPT ![t] = <<>>]
          /\ params' = [params EXCEPT ![t] = NoParams]
          /\ enc' = [enc EXCEPT ![t] = "none"]
     ELSE UNCHANGED <<wjob, startErr, wstate, werr, run, skipFirst, planned, params, enc>>
  /\ UNCHANGED <<storageVars, queue, waitCh, published, callVars, cancelSet, cancelled,
                 job, stop>>

(***************************************************************************)
(* The system                                                              *)
(***************************************************************************)
\* The goroutines that call Controller.Segment in Spec: one client, which makes up
\* to MaxCalls successive calls.
Clients == {"c1"}

\* A step in which every collaborator call succeeds, or one in which some fail.
Env(allOk) ==
  IF allOk THEN UNCHANGED faults
  ELSE faults < MaxFaults /\ faults' = faults + 1

Next ==
  \/ \E c \in Clients, info \in Requests, existsOk, readOk \in BOOLEAN :
       SegmentCall(c, info, existsOk, readOk) /\ Env(existsOk /\ readOk)
  \/ \E c \in Clients, ok \in BOOLEAN : SegmentWait(c, ok) /\ Env(ok)
  \/ \E c \in Clients, ok \in BOOLEAN : SegmentEnqueue(c, ok) /\ Env(ok)
  \/ \E c \in Clients : SegmentCancelled(c) /\ Env(TRUE)
  \/ \E c \in Clients : SegmentTimeout(c) /\ Env(TRUE)
  \/ \E c \in Clients, readOk \in BOOLEAN : SegmentStatus(c, readOk) /\ Env(readOk)
  \/ \E videoOk, audioOk \in BOOLEAN :
       ControllerStart(videoOk, audioOk) /\ Env(videoOk /\ audioOk)
  \/ ControllerStopVideo /\ Env(TRUE)
  \/ ControllerStopAudio /\ Env(TRUE)
  \/ ControllerStopDone /\ Env(TRUE)
  \/ \E t \in StreamTypes : PoolWorkerReceive(t) /\ Env(TRUE)
  \/ \E t \in StreamTypes : PoolWorkerExit(t) /\ Env(TRUE)
  \/ \E t \in StreamTypes, metaOk, mkdirOk, startOk, notifyOk \in BOOLEAN :
       /\ ProcessJob(t, metaOk, mkdirOk, startOk, notifyOk)
       /\ Env(metaOk /\ mkdirOk /\ startOk /\ notifyOk)
  \/ \E t \in StreamTypes, fileOk, writeOk, notifyOk \in BOOLEAN :
       /\ WorkerRunScan(t, fileOk, writeOk, notifyOk)
       /\ Env(fileOk /\ writeOk /\ notifyOk)
  \/ \E t \in StreamTypes, notifyOk \in BOOLEAN :
       WorkerRunNotify(t, notifyOk) /\ Env(notifyOk)
  \/ \E t \in StreamTypes, code \in {0, 1} :
       WorkerRunEOF(t, code) /\ Env(code = 0 \/ cancelled[t])
  \/ \E t \in StreamTypes : WorkerRunWait(t) /\ Env(TRUE)
  \/ \E t \in StreamTypes : WaitForWorker(t) /\ Env(TRUE)

Spec == Init /\ [][Next]_vars

\* The steps of a Segment call that do not depend on the client: WaitSegment
\* and Enqueue return, and in the select the timer of time.After fires unless
\* a status is taken first.  (The client need never cancel its context.)
CallerStep(c) ==
  \/ \E ok \in BOOLEAN : SegmentWait(c, ok) /\ Env(ok)
  \/ \E ok \in BOOLEAN : SegmentEnqueue(c, ok) /\ Env(ok)
  \/ SegmentTimeout(c) /\ Env(TRUE)
  \/ \E readOk \in BOOLEAN : SegmentStatus(c, readOk) /\ Env(readOk)

FairSpec == Spec /\ \A c \in Clients : WF_vars(CallerStep(c))

\* The system while nothing fails: the pools are started and not stopped, every
\* collaborator call succeeds, the encoder emits its planned files and exits
\* with status zero, no client context is cancelled and no timeout fires.
HappyCall(c) ==
  \/ SegmentWait(c, TRUE)
  \/ SegmentEnqueue(c, TRUE)
  \/ SegmentStatus(c, TRUE)

HappyPool(t) ==
  \/ PoolWorkerReceive(t)
  \/ ProcessJob(t, TRUE, TRUE, TRUE, TRUE)
  \/ WaitForWorker(t)

HappyWorker(t) ==
  \/ WorkerRunScan(t, TRUE, TRUE, TRUE)
  \/ WorkerRunNotify(t, TRUE)
  \/ WorkerRunEOF(t, 0)

HappyNext ==
  \/ \E c \in Clients, info \in Requests : SegmentCall(c, info, TRUE, TRUE) /\ Env(TRUE)
  \/ ControllerStart(TRUE, TRUE) /\ Env(TRUE)
  \/ \E c \in Clients : HappyCall(c) /\ Env(TRUE)
  \/ \E t \in StreamTypes : HappyPool(t) /\ Env(TRUE)
  \/ \E t \in StreamTypes : HappyWorker(t) /\ Env(TRUE)

\* Every goroutine that can take a step is scheduled, the encoder runs on.
HappySpec ==
  /\ Init
  /\ [][HappyNext]_vars
  /\ \A c \in Clients : WF_vars(HappyCall(c) /\ Env(TRUE))
  /\ \A t \in StreamTypes : WF_vars(HappyPool(t) /\ Env(TRUE))
  /\ \A t \in StreamTypes : WF_vars(HappyWorker(t) /\ Env(TRUE))

(***************************************************************************)
(* Properties of Controller.Segment and of the notifications               *)
(***************************************************************************)
\* The job a step appends to the queue of stream type t covers the key.
Covers(j, info, t) ==
  /\ j.SourceURL = info.SourceURL
  /\ j.Rendition = info.Rendition
  /\ j.StreamType = t
  /\ StreamTypeOf(info) = t
  /\ j.StartIndex <= info.Index
  /\ info.Index <= j.EndIndex

\* C2: in a call that misses the cache, Enqueue is called (a job joins a queue)
\* only by a caller for which WaitSegment has already returned a channel, and
\* for the job covering its key; when WaitSegment fails, the call returns an
\* error and enqueues nothing (no Enqueue call, no job).
C2_WaitBeforeEnqueue ==
  [][/\ \A t \in StreamTypes :
          Len(queue'[t]) > Len(queue[t]) =>
            \E c \in Callers :
              /\ pc[c] = "enqueue"
              /\ waitCh[c] # NoChannel
              /\ queue'[t] = Append(queue[t], queue'[t][Len(queue'[t])])
              /\ Covers(queue'[t][Len(queue'[t])], req[c], t)
     /\ \A c \in Callers :
          pc'[c] = "enqueue" => waitCh'[c] # NoChannel
     /\ \A c \in Callers :
          (pc[c] = "wait" /\ pc'[c] # "wait" /\ waitCh'[c] = NoChannel) =>
            /\ pc'[c] = "idle"
            /\ ret'.caller = c
            /\ ret'.result.kind = "error"
            /\ queue' = queue
            /\ nextID' = nextID]_vars

\* C2 witness: a caller has registered its waiter and then enqueued its job.
C2_Witness ==
  \E c \in Callers :
    /\ pc[c] = "select"
    /\ waitCh[c] = EmptyChannel
    /\ Len(queue[StreamTypeOf(req[c])]) > 0

\* C3: whenever a ready status has been published for a key (passed to
\* NotifySegment, or delivered to a waiter), the key's bytes are in Storage.
C3_ReadyAfterWrite ==
  /\ \A t \in StreamTypes : \A n \in DOMAIN published[t] :
       published[t][n].state = "ready" =>
         /\ published[t][n].info \in DOMAIN store
         /\ store[published[t][n].info] = SegmentBytes(published[t][n].info)
  /\ \A c \in Callers : waitCh[c].state = "ready" => req[c] \in DOMAIN store

\* C3 witness: a ready status has been published.
C3_Witness ==
  \E t \in StreamTypes : \E n \in DOMAIN published[t] : published[t][n].state = "ready"

\* C4: the bytes a call returns are the bytes written for that key; no call
\* returns data for a key that was not written.
C4_ReturnedBytesWereWritten ==
  ret.result.kind = "bytes" =>
    /\ ret.info \in DOMAIN store
    /\ ret.result.data = store[ret.info]
    /\ ret.result.data = SegmentBytes(ret.info)

\* C4 witness: a call that waited on the Coordinator has returned bytes.
C4_Witness == ret.waited /\ ret.enqueued /\ ret.result.kind = "bytes"

\* C5: a call for a key that SegmentExists reports present returns in that
\* step what ReadSegment gives (the stored bytes, or its error) and leaves the
\* Coordinator untouched: no waiter is registered, no job is created.
C5_CacheHitBypassesCoordinator ==
  [][\A c \in Callers : \A k \in Requests :
       (/\ pc[c] = "idle"
        /\ calls' = calls + 1
        /\ IF pc'[c] = "idle" THEN ret'.caller = c /\ ret'.info = k ELSE req'[c] = k
        /\ SegmentExists(k)
        /\ ~(pc'[c] = "idle" /\ ret'.result = Failure("error", "check segment")))
       => /\ pc'[c] = "idle"
          /\ \/ ret'.result = Bytes(store[k])
             \/ ret'.result = Failure("error", "read segment")
          /\ ~ret'.waited
          /\ ~ret'.enqueued
          /\ waitCh' = waitCh
          /\ queue' = queue
          /\ nextID' = nextID
          /\ UNCHANGED <<acks, published>>]_vars

\* C5 witness: a call has returned stored bytes without waiting.
C5_Witness ==
  /\ ~ret.waited
  /\ ret.result.kind = "bytes"
  /\ ret.info \in DOMAIN store
  /\ ret.result.data = store[ret.info]

\* C6: when a call follows a call for the same key that returned the segment,
\* it returns at once, without waiting or enqueueing, and (unless Storage fails
\* its SegmentExists or ReadSegment) returns the same bytes as the first.
C6_SecondCallObservesFirst ==
  ret.prior # NoBytes =>
    /\ \A c \in Callers : pc[c] = "idle"
    /\ ret.result.kind \in {"bytes", "error"}
    /\ ret.result.kind = "bytes" => ret.result.data = ret.prior
    /\ ret.result.kind = "error" => ret.result.error \in {"check segment", "read segment"}
    /\ ~ret.waited
    /\ ~ret.enqueued

\* C6 witness: the second of two calls for a key has returned the bytes the
\* first returned.
C6_Witness ==
  /\ ret.prior # NoBytes
  /\ ret.result.kind = "bytes"
  /\ ret.result.data = ret.prior

\* The key names a segment of the source's playlist, in a rendition offered
\* for the source, and the source's metadata is stored.
Servable(k) ==
  LET meta == metadata[k.SourceURL]
  IN /\ meta # NoMeta
     /\ \E n \in DOMAIN CalculateSegments(meta.Keyframes, meta.Duration, TargetDuration) :
          CalculateSegments(meta.Keyframes, meta.Duration, TargetDuration)[n].Index = k.Index
     /\ IF k.IsVideo THEN findVideoRendition(meta, k.Rendition) # <<>>
        ELSE findAudioRendition(meta, k.Rendition) # <<>>

\* C1: while nothing fails (HappySpec), a call that has missed the cache for a
\* servable key, with the pool of its stream kind running, eventually returns
\* that segment's bytes, which are then in Storage.
C1_HappyPathReturnsBytes ==
  \A c \in Callers : \A k \in Requests :
    (pc[c] \in {"wait", "enqueue", "select"} /\ req[c] = k /\ Servable(k)
       /\ loop[StreamTypeOf(k)] # "off")
    ~> (/\ pc[c] = "idle"
        /\ ret.caller = c
        /\ ret.info = k
        /\ ret.waited
        /\ ret.result = Bytes(SegmentBytes(k))
        /\ k \in DOMAIN store
        /\ store[k] = SegmentBytes(k))

\* C1 witness: a call for the first segment of a later batch, whose job was
\* widened by one segment, has waited and returned the segment's bytes.
C1_Witness ==
  /\ ret.waited
  /\ ret.info.Index = SegmentsPerJob
  /\ ret.result = Bytes(SegmentBytes(ret.info))

\* C7: every call returns, with bytes, an error of Storage or the Coordinator,
\* a producer error, a cancellation or a timeout; a call that returns from its
\* select without having been sent a status returns a cancellation or a
\* timeout error.
C7_EveryCallReturns ==
  /\ \A c \in Callers :
       (pc[c] # "idle") ~>
         (/\ pc[c] = "idle"
          /\ ret.caller = c
          /\ ret.result.kind \in {"bytes", "error", "segment error", "cancelled", "timeout"})
  /\ [][\A c \in Callers :
          (pc[c] = "select" /\ pc'[c] = "idle" /\ waitCh[c] = EmptyChannel) =>
            ret'.result.kind \in {"cancelled", "timeout"}]_vars

\* C7 witness: a call has returned a timeout after the video pool was stopped
\* with the call's job still queued and no status published.
C7_Witness ==
  /\ ret.result.kind = "timeout"
  /\ ret.info.IsVideo
  /\ cancelled[VIDEO]
  /\ \E n \in DOMAIN queue[VIDEO] : Covers(queue[VIDEO][n], ret.info, VIDEO)
  /\ published[VIDEO] = <<>>

(***************************************************************************)
(* Properties of Pool.processJob                                           *)
(***************************************************************************)
\* The NotifySegment calls of a step of pool t.
NewNotes(t) == SubSeq(published'[t], Len(published[t]) + 1, Len(published'[t]))

\* Some status of the given states has been published for index i of the job.
Notified(t, i, states) ==
  \E n \in DOMAIN published[t] :
    /\ published[t][n].info = JobKey(t, job[t], i)
    /\ published[t][n].state \in states

\* C8 (as the specification states it): when waitForWorker finds the worker
\* failed, every index of the job's range has had a ready status (produced)
\* or an error status published before the job is acknowledged.
C8_ErrorForEveryUnproducedIndex ==
  [][\A t \in StreamTypes :
       (loop[t] = "waitForWorker" /\ loop'[t] = "idle" /\ wstate[t] = "error") =>
         /\ acks'[t] = Append(acks[t], job[t].ID)
         /\ \A i \in publishErrorRange(job[t]) : Notified(t, i, {"ready", "error"})]_vars

\* C9: a processJob that returns before starting a worker has published, in
\* that step, exactly one status per index of [StartIndex, EndIndex], each an
\* error with a non-empty error string, for the job's source and rendition
\* and the pool's stream kind, and has written no segment.
C9_PreExecutionFailurePublishesRange ==
  [][\A t \in StreamTypes :
       (loop[t] = "processJob" /\ loop'[t] = "idle") =>
         LET j == job[t]
             new == NewNotes(t)
         IN /\ Len(published'[t]) >= Len(published[t])
            /\ SubSeq(published'[t], 1, Len(published[t])) = published[t]
            /\ \A i \in j.StartIndex .. j.EndIndex :
                 Cardinality({n \in DOMAIN new : new[n].info.Index = i}) = 1
            /\ \A n \in DOMAIN new :
                 /\ new[n].state = "error"
                 /\ new[n].error # ""
                 /\ new[n].info.SourceURL = j.SourceURL
                 /\ new[n].info.Rendition = j.Rendition
                 /\ new[n].info.IsVideo = (t = VIDEO)
                 /\ new[n].info.Index \in j.StartIndex .. j.EndIndex
            /\ store' = store]_vars

\* C9 witness: processJob has returned on an empty range, the status of each
\* index published.
C9_Witness ==
  \E t \in StreamTypes :
    /\ loop[t] = "idle"
    /\ job[t] # NoJob
    /\ Len(published[t]) = SegmentsPerJob
    /\ \A n \in DOMAIN published[t] : published[t][n].error = "no segments for range"

\* C10 (as the specification states it): once the worker loop is done with the
\* job it received, it has passed the job's id to Ack exactly once.
C10_EveryJobAckedOnce ==
  \A t \in StreamTypes :
    (loop[t] \in {"idle", "exited"} /\ job[t] # NoJob) => acks[t] = <<job[t].ID>>

(***************************************************************************)
(* The status a waiter receives                                            *)
(***************************************************************************)
\* C11: a call that returns from its select on a received status (not by
\* cancellation or timeout) returns, on an error status, an error that carries
\* the producer's error string, whatever a read of Storage would give; on a
\* ready status, what ReadSegment gives for the key (its bytes, or its error).
C11_StatusDecidesResult ==
  [][\A c \in Callers :
       (/\ pc[c] = "select"
        /\ pc'[c] = "idle"
        /\ ret'.result.kind \notin {"cancelled", "timeout"})
       => /\ ret'.caller = c
          /\ ret'.info = req[c]
          /\ waitCh[c].state \in {"ready", "error"}
          /\ waitCh[c].state = "error" =>
               /\ ret'.result = Failure("segment error", waitCh[c].error)
               /\ waitCh[c].error # ""
          /\ waitCh[c].state = "ready" =>
               \/ ret'.result = Bytes(ReadSegment(req[c]))
               \/ ret'.result = Failure("error", "read segment")]_vars

\* C11 witness: a call has returned the error string its producer published.
C11_Witness ==
  /\ ret.waited
  /\ ret.result.kind = "segment error"
  /\ ret.result.error = "rendition not found"

(***************************************************************************)
(* The batch of a request.  Segment takes any int as index: BatchSpec is    *)
(* the Controller alone (no pool started), called with indexes of either    *)
(* sign.                                                                    *)
(***************************************************************************)
AnyIndexRequests ==
  {Key("a", TRUE, "720p", i) : i \in -MaxIndex .. MaxIndex}
  \cup {Key("a", FALSE, "aac_stereo", i) : i \in -MaxIndex .. MaxIndex}

BatchNext ==
  \/ \E c \in Clients, info \in AnyIndexRequests :
       SegmentCall(c, info, TRUE, TRUE) /\ Env(TRUE)
  \/ \E c \in Clients : SegmentWait(c, TRUE) /\ Env(TRUE)
  \/ \E c \in Clients : SegmentEnqueue(c, TRUE) /\ Env(TRUE)
  \/ \E c \in Clients : SegmentTimeout(c) /\ Env(TRUE)

BatchSpec == Init /\ [][BatchNext]_vars

\* The job the step has appended for caller c.
Enqueues(c) == pc[c] = "enqueue" /\ pc'[c] = "select"
EnqueuedJob(c) ==
  queue'[StreamTypeOf(req[c])][Len(queue'[StreamTypeOf(req[c])])]

\* C12: for a request with index >= 0 the enqueued job starts at the multiple
\* k * SegmentsPerJob with k * SegmentsPerJob <= index < (k + 1) * SegmentsPerJob,
\* ends SegmentsPerJob - 1 later, and carries the request's source, rendition
\* and stream kind.
C12_BatchOfIndex ==
  [][\A c \in Callers :
       Enqueues(c) =>
         LET t == StreamTypeOf(req[c])
             j == EnqueuedJob(c)
         IN /\ queue'[t] = Append(queue[t], j)
            /\ j.SourceURL = req[c].SourceURL
            /\ j.Rendition = req[c].Rendition
            /\ j.StreamType = t
            /\ j.ID = nextID
            /\ req[c].Index >= 0 =>
                 /\ \E k \in 0 .. req[c].Index :
                      /\ j.StartIndex = k * SegmentsPerJob
                      /\ k * SegmentsPerJob <= req[c].Index
                      /\ req[c].Index < (k + 1) * SegmentsPerJob
                 /\ j.EndIndex = j.StartIndex + SegmentsPerJob - 1]_vars

\* C12 witness: the job of a request for the last index of the second batch.
C12_Witness ==
  \E c \in Callers :
    /\ pc[c] = "select"
    /\ req[c].Index = 2 * SegmentsPerJob - 1
    /\ \E n \in DOMAIN queue[StreamTypeOf(req[c])] :
         /\ queue[StreamTypeOf(req[c])][n].ID = nextID - 1
         /\ queue[StreamTypeOf(req[c])][n].StartIndex = SegmentsPerJob
         /\ queue[StreamTypeOf(req[c])][n].EndIndex = 2 * SegmentsPerJob - 1

\* C13 (as the specification states it): the job enqueued for a request covers
\* the requested index, whatever its sign.
C13_JobCoversIndex ==
  [][\A c \in Callers :
       Enqueues(c) =>
         /\ EnqueuedJob(c).StartIndex <= req[c].Index
         /\ req[c].Index <= EnqueuedJob(c).EndIndex]_vars

(***************************************************************************)
(* Requests beyond the last segment of the source.                          *)
(***************************************************************************)
OutOfRange(k) ==
  /\ metadata[k.SourceURL] # NoMeta
  /\ k.Index >= Len(CalculateSegments(metadata[k.SourceURL].Keyframes,
                                      metadata[k.SourceURL].Duration,
                                      TargetDuration))

\* C14 (as the specification states it): an index that is not smaller than the
\* number of segments of the source gets no file and no status, so a call
\* that waited for it ends with the timeout error.
C14_OutOfRangeTimesOut ==
  /\ \A k \in DOMAIN store : ~OutOfRange(k)
  /\ \A t \in StreamTypes : \A n \in DOMAIN published[t] :
       ~OutOfRange(published[t][n].info)
  /\ (ret.caller \in Callers /\ ret.waited /\ OutOfRange(ret.info))
       => ret.result.kind = "timeout"

(***************************************************************************)
(* The segment list of a job.  SegmentsSpec runs the Controller, the pools  *)
(* and the workers, nothing failing, on a source whose keyframe table and   *)
(* duration are drawn from a bounded set: tables start at 0, ascend, and    *)
(* the duration lies behind the last keyframe.                              *)
(***************************************************************************)
MaxKeyframes == 3
KeyframeTimes == {0, 2, 4, 6, 8, 12}
DurationTails == {1, 6}

RECURSIVE Ascending(_)
Ascending(kf) ==
  Len(kf) < 2 \/ (kf[1] < kf[2] /\ Ascending(Tail(kf)))

KeyframeTables ==
  {kf \in UNION {[1 .. n -> KeyframeTimes] : n \in 1 .. MaxKeyframes} :
     kf[1] = 0 /\ Ascending(kf)}

ProbedSources ==
  {[MetaA EXCEPT !.Keyframes = kf, !.Duration = kf[Len(kf)] + d] :
     kf \in KeyframeTables, d \in DurationTails}

SegmentsInit == \E meta \in ProbedSources : InitWith(meta)

SegmentsSpec == SegmentsInit /\ [][HappyNext]_vars

InRange(segments, startIdx, endIdx) ==
  SelectSeq(segments, LAMBDA sg : startIdx <= sg.Index /\ sg.Index <= endIdx)

\* C15 (as the specification states it): the segment list a pool worker
\* derives for its job equals playlist.CalculateSegments, with the Controller's
\* TargetDuration, filtered to StartIndex <= Index <= EndIndex.
C15_WorkerListIsPlaylistList ==
  \A t \in StreamTypes :
    (job[t] # NoJob /\ metadata[job[t].SourceURL] # NoMeta) =>
      LET meta == metadata[job[t].SourceURL]
      IN extractSegments(meta.Keyframes, meta.Duration,
                         job[t].StartIndex, job[t].EndIndex)
         = InRange(CalculateSegments(meta.Keyframes, meta.Duration, TargetDuration),
                   job[t].StartIndex, job[t].EndIndex)

(***************************************************************************)
(* Cancellation by the caller.  CancelSpec is the system while nothing      *)
(* fails, with clients that may cancel the context of a waiting call.       *)
(***************************************************************************)
CancelNext ==
  \/ HappyNext
  \/ \E c \in Clients : SegmentCancelled(c) /\ Env(TRUE)

CancelSpec ==
  /\ Init
  /\ [][CancelNext]_vars
  /\ \A c \in Clients : WF_vars(HappyCall(c) /\ Env(TRUE))
  /\ \A t \in StreamTypes : WF_vars(HappyPool(t) /\ Env(TRUE))
  /\ \A t \in StreamTypes : WF_vars(HappyWorker(t) /\ Env(TRUE))

\* C16: a waiting call whose context is cancelled returns the cancellation
\* error in that step, which leaves the queue, the pools and the workers as
\* they are; and when the cancelled call asked for a servable key and the
\* pool of its stream kind is running, the segment is eventually in Storage,
\* where a later call finds it.
C16_CancelledCallLeavesJob ==
  /\ [][\A c \in Callers :
          (pc[c] = "select" /\ pc'[c] = "idle" /\ ret'.result.kind = "cancelled")
          => /\ ret'.caller = c /\ ret'.info = req[c]
             /\ ret'.result = Failure("cancelled", "context canceled")
             /\ UNCHANGED <<storageVars, queue, acks, published, poolVars,
                            workerVars>>]_vars
  /\ \A k \in Requests :
       (/\ ret.result.kind = "cancelled" /\ ret.info = k
        /\ Servable(k) /\ loop[StreamTypeOf(k)] # "off")
       ~> (k \in DOMAIN store /\ store[k] = SegmentBytes(k))

\* C16 witness: the call for a servable key was cancelled while the job it
\* enqueued was still in the queue of a running pool.
C16_Witness ==
  /\ ret.result.kind = "cancelled"
  /\ Servable(ret.info)
  /\ ret.info \notin DOMAIN store
  /\ loop[StreamTypeOf(ret.info)] # "off"
  /\ \E n \in DOMAIN queue[StreamTypeOf(ret.info)] :
       /\ Covers(queue[StreamTypeOf(ret.info)][n], ret.info, StreamTypeOf(ret.info))
       /\ queue[StreamTypeOf(ret.info)][n].ID = nextID - 1

(***************************************************************************)
(* Concurrent calls.  ConcurrentSpec is the system while nothing fails,     *)
(* called by every caller of Callers at once.                               *)
(***************************************************************************)
ConcurrentNext ==
  \/ \E c \in Callers, info \in Requests : SegmentCall(c, info, TRUE, TRUE) /\ Env(TRUE)
  \/ ControllerStart(TRUE, TRUE) /\ Env(TRUE)
  \/ \E c \in Callers : HappyCall(c) /\ Env(TRUE)
  \/ \E t \in StreamTypes : HappyPool(t) /\ Env(TRUE)
  \/ \E t \in StreamTypes : HappyWorker(t) /\ Env(TRUE)

ConcurrentSpec == Init /\ [][ConcurrentNext]_vars

\* The jobs a pool holds: queued, or taken by its loop.
JobsOf(t) ==
  {queue[t][n] : n \in DOMAIN queue[t]} \cup (IF job[t] = NoJob THEN {} ELSE {job[t]})

\* The keys of the segments of a job's range.
BatchOutput(t, j) ==
  IF j = NoJob \/ metadata[j.SourceURL] = NoMeta THEN {}
  ELSE LET segments == extractSegments(metadata[j.SourceURL].Keyframes,
                                       metadata[j.SourceURL].Duration,
                                       j.StartIndex, j.EndIndex)
       IN {JobKey(t, j, segments[n].Index) : n \in DOMAIN segments}

\* C17: a call that has missed the cache appends a job for its batch also when
\* the pool already holds a job for that batch; that job differs from the new
\* one in its id only.  A step of the system adds to Storage only segments of
\* the range of the job being run and never changes a stored segment, whose
\* content depends on its key alone; a job that has run has left the segments
\* of its range there: a second job for the batch has nothing to add.
C17_DuplicateJobs ==
  /\ [][/\ \A c \in Callers :
            Enqueues(c) =>
              LET t == StreamTypeOf(req[c])
                  j == EnqueuedJob(c)
              IN /\ queue'[t] = Append(queue[t], j)
                 /\ Covers(j, req[c], t)
                 /\ \A o \in JobsOf(t) :
                      Covers(o, req[c], t) => o.ID # j.ID /\ [o EXCEPT !.ID = j.ID] = j
        /\ \A k \in DOMAIN store : k \in DOMAIN store' /\ store'[k] = store[k]
        /\ \A k \in DOMAIN store' \ DOMAIN store :
             /\ store'[k] = SegmentBytes(k)
             /\ k \in BatchOutput(StreamTypeOf(k), wjob[StreamTypeOf(k)])]_vars
  /\ [](\A t \in StreamTypes :
          (job[t] # NoJob /\ acks[t] = <<job[t].ID>> /\ werr[t] = NoError)
          => \A k \in BatchOutput(t, job[t]) :
               k \in DOMAIN store /\ store[k] = SegmentBytes(k))

\* C17 witness: two calls for indexes of one batch were in progress together,
\* each enqueued a job, and the second job has run too.
C17_Witness ==
  \E t \in StreamTypes :
    /\ job[t] # NoJob
    /\ pc["c1"] = "select" /\ Covers(job[t], req["c1"], t)
    /\ ret.caller = "c2" /\ ret.enqueued /\ Covers(job[t], ret.info, t)
    /\ job[t].ID = nextID - 1 /\ job[t].ID > 1
    /\ acks[t] = <<job[t].ID>>
    /\ BatchOutput(t, job[t]) # {}

(***************************************************************************)
(* NotifyingStorage.WriteSegment when a collaborator fails.  What it        *)
(* returns is what uploadSegment wraps into the worker's error.             *)
(***************************************************************************)
WriteFailure == Wrap("write segment", Wrap("storage write", StorageError))
ReadyFailure == Wrap("write segment", Wrap("notify segment", PubSubError))

\* The key the worker is uploading.
Uploading(t) == UploadKey(t, parseSegmentIndex(Head(planned[t])))

\* C18: when the underlying write fails, WriteSegment makes one NotifySegment
\* call, for the key, with state error and the text of the storage error, and
\* none with state ready; it returns the storage error wrapped in "storage
\* write", delivered or not; nothing is stored, and nothing more is published
\* while the pool is on the worker's job.
C18_WriteFailurePublishesError ==
  /\ [][\A t \in StreamTypes :
          (werr[t] = NoError /\ werr'[t] # NoError /\ Len(werr'[t]) > 1
             /\ werr'[t][2] = "storage write")
          => /\ run[t] = "scan"
             /\ werr'[t] = WriteFailure
             /\ NewNotes(t) = <<Note(Uploading(t), "error", "boom", wjob[t].ID)>>
             /\ store' = store
             /\ \/ waitCh' = waitCh
                \/ waitCh' = Deliver(waitCh, Uploading(t), "error", "boom")]_vars
  /\ [](\A t \in StreamTypes :
          (werr[t] = WriteFailure /\ job[t] = wjob[t])
          => /\ published[t] # <<>>
             /\ published[t][Len(published[t])].state = "error"
             /\ published[t][Len(published[t])].error = "boom"
             /\ \A n \in DOMAIN published[t] :
                  published[t][n].info = published[t][Len(published[t])].info
                  => n = Len(published[t]))

\* C18 witness: the write failed and the error status did not reach the
\* caller that waits for the key.
C18_Witness ==
  \E t \in StreamTypes, c \in Callers :
    /\ werr[t] = WriteFailure
    /\ published[t] # <<>>
    /\ pc[c] = "select"
    /\ req[c] = published[t][Len(published[t])].info
    /\ waitCh[c] = EmptyChannel

\* C19: when the write has succeeded and the NotifySegment call for the ready
\* status fails, WriteSegment returns an error (wrapped in "notify segment");
\* the bytes stay in Storage, no error status is published for the key, and
\* no waiter is told.
C19_ReadyFailureKeepsBytes ==
  /\ [][\A t \in StreamTypes :
          (run[t] = "notify" /\ run'[t] # "notify" /\ faults' # faults)
          => /\ werr'[t] = ReadyFailure
             /\ wstate'[t] = "error"
             /\ store' = store
             /\ Uploading(t) \in DOMAIN store
             /\ store[Uploading(t)] = SegmentBytes(Uploading(t))
             /\ NewNotes(t) = <<Note(Uploading(t), "ready", "", wjob[t].ID)>>
             /\ waitCh' = waitCh]_vars
  /\ [](\A t \in StreamTypes :
          (werr[t] = ReadyFailure /\ job[t] = wjob[t])
          => /\ published[t] # <<>>
             /\ published[t][Len(published[t])].state = "ready"
             /\ published[t][Len(published[t])].info \in DOMAIN store
             /\ \A n \in DOMAIN published[t] : published[t][n].state # "error")

\* C19 witness: the ready status of a stored segment could not be published
\* and the caller that waits for it has nothing.
C19_Witness ==
  \E t \in StreamTypes, c \in Callers :
    /\ werr[t] = ReadyFailure
    /\ published[t] # <<>>
    /\ pc[c] = "select"
    /\ req[c] = published[t][Len(published[t])].info
    /\ req[c] \in DOMAIN store
    /\ waitCh[c] = EmptyChannel

(***************************************************************************)
(* The states of a Worker.  WorkerSpec is the system with a client of the   *)
(* Worker that calls Start on a Worker the pool has started.                *)
(***************************************************************************)
WorkerNext ==
  \/ Next
  \/ \E t \in StreamTypes : WorkerStartAgain(t) /\ Env(TRUE)

WorkerSpec == Init /\ [][WorkerNext]_vars

\* C20: a Worker is started from idle and is then running; the state of a
\* Worker changes only from running to done or to error, and a state of done
\* or error stays; Start on a Worker that is not idle returns "worker
\* already started" and changes neither the state nor the encoder nor
\* anything else.
C20_WorkerStates ==
  [][\A t \in StreamTypes :
       /\ (wjob'[t] # wjob[t] /\ wjob'[t] # NoJob)
            => wstate'[t] = "running" /\ startErr'[t] = "nil"
       /\ (wjob'[t] = wjob[t] /\ wstate'[t] # wstate[t])
            => wstate[t] = "running" /\ wstate'[t] \in {"done", "error"}
       /\ (wjob'[t] = wjob[t] /\ startErr'[t] # startErr[t])
            => /\ wstate[t] # "idle"
               /\ startErr'[t] = "worker already started"
               /\ UNCHANGED <<storageVars, coordVars, callVars, poolVars, wjob, params,
                              wstate, werr, run, skipFirst, planned, enc, tmpDir>>]_vars

\* C20 witness: Start was refused on a Worker that had failed, and the Worker
\* is still in the state error with its encoder gone.
C20_Witness ==
  \E t \in StreamTypes :
    /\ startErr[t] = "worker already started"
    /\ wstate[t] = "error"
    /\ enc[t] = "exited"

(***************************************************************************)
(* The end of Worker.run.                                                   *)
(***************************************************************************)
ExitFailure == <<"exit status">>

\* The scanner has seen the end of the encoder's output.
ReachesEOF(t) == run[t] = "scan" /\ run'[t] = "returned"

\* C21: a worker whose context is not cancelled and whose uploads have all
\* succeeded awaits the encoder once its output is closed, and ends in done
\* when the encoder exited with status zero, in error with the exit reason as
\* its error when it exited with another status.
C21_ExitStatusDecidesState ==
  [][\A t \in StreamTypes :
       (ReachesEOF(t) /\ ~cancelled[t])
       => /\ wstate[t] = "running" /\ werr[t] = NoError
          /\ enc'[t] = "exited"
          /\ faults' = faults => wstate'[t] = "done" /\ werr'[t] = NoError
          /\ faults' # faults => wstate'[t] = "error" /\ werr'[t] = ExitFailure]_vars

\* C21 witness: an uncancelled worker has ended in error with the exit reason.
C21_Witness ==
  \E t \in StreamTypes :
    /\ ~cancelled[t] /\ run[t] = "returned" /\ enc[t] = "exited"
    /\ wstate[t] = "error" /\ werr[t] = ExitFailure

\* Worker.run returns: from the end of the output, or from cmd.Wait after
\* the cancelled context was seen in the loop.
RunReturns(t) == run[t] \in {"scan", "waitAfterCancel"} /\ run'[t] = "returned"

\* C22 (as the specification states it): when the context of a running worker
\* has been cancelled, the worker ends in done or in error, and in error when
\* the encoder exited with an error too.  (An encoder that closes its output
\* with planned files left has not exited with status zero.)
C22_CancelledWorkerEnds ==
  [][\A t \in StreamTypes :
       (RunReturns(t) /\ cancelled[t] /\ wstate[t] = "running")
       => /\ wstate'[t] \in {"done", "error"}
          /\ (run[t] = "scan" /\ planned[t] # <<>>) => wstate'[t] = "error"]_vars

(***************************************************************************)
(* The output of the encoder.  EmitSpec is a Worker built by NewWorker and  *)
(* started on an encoder that prints any lines, nothing failing.            *)
(***************************************************************************)
MaxLines == 3
Lines ==
  {Filename(1), Filename(2), <<Word("frame=1")>>,
   <<Word("segment"), Word("x")>>, EmptyLine}
Outputs == UNION {[1 .. n -> Lines] : n \in 0 .. MaxLines}

\* NewWorker(args, storage, sourceURL, rendition, isVideo, tmpDir, skipFirst)
\* and Start, with an encoder that will print the lines of output.
WorkerStartOn(t, sf, output) ==
  /\ loop[t] = "off"
  /\ wjob[t] = NoJob
  /\ wjob' = [wjob EXCEPT ![t] = BatchJob(1, Key("a", t = VIDEO, "1080p", 0))]
  /\ startErr' = [startErr EXCEPT ![t] = "nil"]
  /\ wstate' = [wstate EXCEPT ![t] = "running"]
  /\ werr' = [werr EXCEPT ![t] = NoError]
  /\ run' = [run EXCEPT ![t] = "scan"]
  /\ skipFirst' = [skipFirst EXCEPT ![t] = sf]
  /\ planned' = [planned EXCEPT ![t] = output]
  /\ enc' = [enc EXCEPT ![t] = "running"]
  /\ tmpDir' = [tmpDir EXCEPT ![t] = TRUE]
  /\ UNCHANGED <<storageVars, coordVars, callVars, poolVars, params>>

EmitNext ==
  \/ \E t \in StreamTypes, sf \in BOOLEAN, output \in Outputs :
       WorkerStartOn(t, sf, output) /\ Env(TRUE)
  \/ \E t \in StreamTypes : HappyWorker(t) /\ Env(TRUE)

EmitSpec == Init /\ [][EmitNext]_vars

\* The indexes to upload from the lines to come: none for an empty line, none
\* for the first filename when the first is to be skipped, none for a
\* filename without index.
RECURSIVE Uploads(_, _)
Uploads(lines, sf) ==
  IF lines = <<>> THEN <<>>
  ELSE IF Head(lines) = EmptyLine THEN Uploads(Tail(lines), sf)
  ELSE IF sf THEN Uploads(Tail(lines), FALSE)
  ELSE IF parseSegmentIndex(Head(lines)) = -1 THEN Uploads(Tail(lines), FALSE)
  ELSE <<parseSegmentIndex(Head(lines))>> \o Uploads(Tail(lines), FALSE)

\* The indexes uploaded, in the order of their ready status.
Uploaded(notes) == [n \in DOMAIN notes |-> notes[n].info.Index]

\* C23: whatever the encoder prints, the indexes a worker has uploaded followed
\* by those it has still to upload from the lines to come stay the same from
\* its start to its end, where nothing is to come: with skipFirst the first
\* filename is discarded, every later filename with an index is uploaded once,
\* in order, under that index; without skipFirst all of them are.  A segment
\* enters Storage only as the upload of the line being read.
C23_UploadsFollowOutput ==
  /\ [][\A t \in StreamTypes :
          /\ (wjob[t] = NoJob /\ wjob'[t] # NoJob) => published'[t] = <<>>
          /\ (wjob[t] # NoJob /\ wjob'[t] = wjob[t])
               => /\ Uploaded(published'[t]) \o Uploads(planned'[t], skipFirst'[t])
                     = Uploaded(published[t]) \o Uploads(planned[t], skipFirst[t])
                  /\ \A k \in DOMAIN store' \ DOMAIN store :
                       StreamTypeOf(k) = t
                       => /\ run[t] = "scan" /\ run'[t] = "notify"
                          /\ k = UploadKey(t, Head(Uploads(planned[t], skipFirst[t])))]_vars
  /\ [](\A t \in StreamTypes :
          wstate[t] = "done"
          => /\ planned[t] = <<>>
             /\ \A n \in DOMAIN published[t] :
                  /\ published[t][n].state = "ready"
                  /\ published[t][n].info \in DOMAIN store
                  /\ published[t][n].info = UploadKey(t, published[t][n].info.Index))

\* C23 witness: a worker has ended after two filenames with one segment
\* written, that of index 2.
C23_Witness ==
  \E t \in StreamTypes :
    /\ wstate[t] = "done" /\ run[t] = "returned"
    /\ Uploaded(published[t]) = <<2>>
    /\ {k \in DOMAIN store : StreamTypeOf(k) = t} = {UploadKey(t, 2)}

(***************************************************************************)
(* A worker after an upload failure.                                        *)
(***************************************************************************)
ReadFailure == Wrap("read segment file", <<"open">>)

\* The upload of the line being read fails.
UploadFails(t) == run[t] \in {"scan", "notify"} /\ run'[t] = "waitAfterError"

\* C24: the step in which an upload fails puts the worker in error with that
\* failure as its error and leaves the encoder running; from then on the
\* worker writes no segment and publishes no status, keeps state and error,
\* and its run returns only with the encoder exited.
C24_UploadFailureStopsWorker ==
  /\ [][\A t \in StreamTypes :
          /\ UploadFails(t)
               => /\ wstate[t] = "running" /\ wstate'[t] = "error"
                  /\ werr'[t] \in {ReadFailure, WriteFailure, ReadyFailure}
                  /\ run[t] = "notify" <=> werr'[t] = ReadyFailure
                  /\ faults' # faults
                  /\ enc[t] = "running" /\ enc'[t] = "running"
                  /\ store' = store
          /\ (run[t] = "waitAfterError" /\ wjob'[t] = wjob[t])
               => /\ wstate'[t] = "error" /\ werr'[t] = werr[t]
                  /\ planned'[t] = planned[t]
                  /\ \A k \in DOMAIN store' \ DOMAIN store : StreamTypeOf(k) # t
                  /\ \A n \in DOMAIN NewNotes(t) : NewNotes(t)[n].job # wjob[t].ID
                  /\ run'[t] \in {"waitAfterError", "returned"}
                  /\ run'[t] = "waitAfterError" => enc'[t] = "running"
                  /\ run'[t] = "returned" => enc'[t] = "exited"]_vars
  /\ [](\A t \in StreamTypes : run[t] = "returned" => enc[t] = "exited")

\* C24 witness: the first of two files could not be read; the worker has
\* ended in error with the second not uploaded and the encoder exited.
C24_Witness ==
  \E t \in StreamTypes :
    /\ run[t] = "returned" /\ enc[t] = "exited"
    /\ wstate[t] = "error" /\ werr[t] = ReadFailure
    /\ Len(planned[t]) = 2
    /\ \A n \in DOMAIN planned[t] :
         UploadKey(t, parseSegmentIndex(planned[t][n])) \notin DOMAIN store

(***************************************************************************)
(* What a pool leaves behind.                                               *)
(***************************************************************************)
\* The worker goroutine of the pool has finished and its encoder has exited.
WorkerGone(t) == run[t] \in {"none", "returned"} /\ enc[t] \in {"none", "exited"}

\* C25 (as the specification states it): once processJob has returned for a
\* job whose worker was started (the pool loop is back at its select or has
\* exited, the job acknowledged, the work directory removed), and once
\* Pool.Stop of a started pool has returned, the worker's goroutine has
\* finished and the encoder has exited.
C25_NoWorkerOutlivesJob ==
  \A t \in StreamTypes :
    /\ (loop[t] \in {"idle", "exited"} /\ ~tmpDir[t]) => WorkerGone(t)
    /\ (/\ cancelled[t]
        /\ (t = VIDEO /\ stop \in {"audio", "done"}) \/ (t = AUDIO /\ stop = "done"))
       => WorkerGone(t)

\* processJob returns to the loop of the pool.
ProcessJobReturns(t) ==
  loop[t] \in {"processJob", "waitForWorker"} /\ loop'[t] = "idle"

\* C26: a work directory exists only while processJob waits for its worker:
\* when processJob returns, whether it failed before the worker was started,
\* the worker ended in done or in error, or the pool was cancelled, the
\* directory is gone.
C26_WorkDirRemoved ==
  /\ [][\A t \in StreamTypes : ProcessJobReturns(t) => ~tmpDir'[t]]_vars
  /\ [](\A t \in StreamTypes : tmpDir[t] => loop[t] = "waitForWorker")

\* C26 witness: processJob has returned for a job whose worker was killed by
\* the cancellation of the pool, and the directory is removed.
C26_Witness ==
  \E t \in StreamTypes :
    /\ cancelled[t] /\ loop[t] \in {"idle", "exited"}
    /\ job[t] # NoJob /\ wjob[t] = job[t] /\ acks[t] = <<job[t].ID>>
    /\ wstate[t] = "running"
    /\ ~tmpDir[t]

(***************************************************************************)
(* Stopping.  StopSpec is the system while no collaborator fails, with a    *)
(* Controller that may be stopped, and stopped again; the goroutines of the *)
(* pools and a Stop in progress are scheduled.                              *)
(***************************************************************************)
\* Controller.Stop called after an earlier Stop has returned.
ControllerStopAgain ==
  /\ stop = "done"
  /\ cancelled' = PoolCancel(VIDEO)
  /\ stop' = "video"
  /\ UNCHANGED <<storageVars, coordVars, callVars, cancelSet, loop, job, workerVars>>

\* A step of the loop of a pool.
PoolStep(t) ==
  \/ HappyPool(t) /\ Env(TRUE)
  \/ PoolWorkerExit(t) /\ Env(TRUE)

\* A step of the goroutine of a worker; a killed encoder exits with an error.
WorkerStep(t) ==
  \/ HappyWorker(t) /\ Env(TRUE)
  \/ cancelled[t] /\ WorkerRunEOF(t, 1) /\ Env(TRUE)
  \/ WorkerRunWait(t) /\ Env(TRUE)

\* wg.Wait returns in a Stop that has been called.
StopStep ==
  \/ ControllerStopAudio /\ Env(TRUE)
  \/ ControllerStopDone /\ Env(TRUE)

StopNext ==
  \/ \E c \in Clients, info \in Requests : SegmentCall(c, info, TRUE, TRUE) /\ Env(TRUE)
  \/ \E c \in Clients : HappyCall(c) /\ Env(TRUE)
  \/ ControllerStart(TRUE, TRUE) /\ Env(TRUE)
  \/ ControllerStopVideo /\ Env(TRUE)
  \/ ControllerStopAgain /\ Env(TRUE)
  \/ StopStep
  \/ \E t \in StreamTypes : PoolStep(t)
  \/ \E t \in StreamTypes : WorkerStep(t)

StopSpec ==
  /\ Init
  /\ [][StopNext]_vars
  /\ \A t \in StreamTypes : WF_vars(PoolStep(t))
  /\ WF_vars(StopStep)

\* Pool.Stop of the pool is waiting in wg.Wait.
Stopping(t) == IF t = VIDEO THEN stop = "video" ELSE stop = "audio"

DirectStream(t, j) ==
  /\ t = VIDEO /\ j # NoJob /\ metadata[j.SourceURL] # NoMeta
  /\ findVideoRendition(metadata[j.SourceURL], j.Rendition) # <<>>
  /\ findVideoRendition(metadata[j.SourceURL], j.Rendition)[1].Method = "direct_stream"

\* The segments of the source with an index from lo to hi.
SegmentsIn(j, lo, hi) ==
  extractSegments(metadata[j.SourceURL].Keyframes, metadata[j.SourceURL].Duration,
                  lo, hi)

\* C28: the worker of a direct-stream video job that starts behind index 0 is
\* started on an encoder run over the segments StartIndex - 1 .. EndIndex,
\* its files numbered from StartIndex - 1, with skipFirst set; that of a job
\* starting at index 0 on the segments of its range, skipFirst unset.  A
\* worker that is done with nothing left to come has uploaded the indexes of
\* the segments of StartIndex .. EndIndex, each once and in order, and not
\* StartIndex - 1.
C28_DirectStreamWidening ==
  /\ [][\A t \in StreamTypes :
          (loop[t] = "processJob" /\ loop'[t] = "waitForWorker"
             /\ DirectStream(t, job[t]))
          => /\ wjob'[t] = job[t]
             /\ job[t].StartIndex > 0
                 => /\ skipFirst'[t]
                    /\ planned'[t] = EncoderPlan(SegmentsIn(job[t], job[t].StartIndex - 1,
                                                             job[t].EndIndex))
                    /\ planned'[t][1] = Filename(job[t].StartIndex - 1)
             /\ job[t].StartIndex = 0
                 => /\ ~skipFirst'[t]
                    /\ planned'[t] = EncoderPlan(SegmentsIn(job[t], 0, job[t].EndIndex))]_vars
  /\ [](\A t \in StreamTypes :
          (/\ DirectStream(t, wjob[t]) /\ loop[t] = "waitForWorker" /\ job[t] = wjob[t]
           /\ wstate[t] = "done" /\ planned[t] = <<>>)
          => /\ Uploaded(published[t])
                = [n \in DOMAIN SegmentsIn(wjob[t], wjob[t].StartIndex, wjob[t].EndIndex) |->
                     SegmentsIn(wjob[t], wjob[t].StartIndex, wjob[t].EndIndex)[n].Index]
             /\ \A n \in DOMAIN published[t] :
                  /\ published[t][n].state = "ready"
                  /\ published[t][n].info.Index >= wjob[t].StartIndex
                  /\ published[t][n].info \in DOMAIN store)

\* C28 witness: the worker of a direct-stream job starting at index 2 is done;
\* it has uploaded segment 2, and segment 1 is not in Storage.
C28_Witness ==
  /\ DirectStream(VIDEO, wjob[VIDEO])
  /\ wjob[VIDEO].StartIndex = 2
  /\ wstate[VIDEO] = "done"
  /\ Uploaded(published[VIDEO]) = <<2>>
  /\ JobKey(VIDEO, wjob[VIDEO], 2) \in DOMAIN store
  /\ JobKey(VIDEO, wjob[VIDEO], 1) \notin DOMAIN store

(***************************************************************************)
(* Controller.VariantPlaylist and the segment list of the playlists.        *)
(* PlaylistSpec builds the Controller with a target duration left at 0 or   *)
(* set, on a source whose keyframe table and duration are drawn from a      *)
(* bounded set: tables ascend, may be empty and need not start at 0; the    *)
(* duration is what the prober parsed, 0 when it could parse none, and lies *)
(* before, between or behind the keyframes.                                 *)
(***************************************************************************)
\* A line of a playlist: its tag, "" when it has none, and what follows it.
Line(tag, value) == [tag |-> tag, value |-> value]

\* math.Ceil of a time given in thousandths of a second, in seconds.
Ceil(millis) == (millis + 999) \div 1000

\* All segments but the last get their two lines.
VariantEntriesButLast(sourceURL, rendition, isVideo, segments) ==
  [n \in 1 .. 2 * (Len(segments) - 1) |->
     IF n % 2 = 1
     THEN Line("#EXTINF", <<Millis(segments[(n + 1) \div 2].Duration)>>)
     ELSE Line("", <<Key(sourceURL, isVideo, rendition, segments[n \div 2].Index)>>)]

\* The second loop of Generator.Variant: per segment its "#EXTINF:%.3f," line,
\* the duration to the thousandth, and the line of its path.
VariantEntries(sourceURL, rendition, isVideo, segments) ==
  [n \in 1 .. 2 * Len(segments) |->
     IF n % 2 = 1
     THEN Line("#EXTINF", <<Millis(segments[(n + 1) \div 2].Duration)>>)
     ELSE Line("", <<Key(sourceURL, isVideo, rendition, segments[n \div 2].Index)>>)]

\* playlist.Generator.Variant: the lines of the media playlist.
Variant(sourceURL, rendition, isVideo, segments) ==
  LET durations == {Millis(segments[n].Duration) : n \in DOMAIN segments} \cup {0}
      maxDuration == CHOOSE d \in durations : \A e \in durations : e <= d
  IN <<Line("#EXTM3U", <<>>),
       Line("#EXT-X-VERSION", <<4>>),
       Line("#EXT-X-TARGETDURATION", <<Ceil(maxDuration)>>),
       Line("#EXT-X-PLAYLIST-TYPE", <<"VOD">>),
       Line("#EXT-X-MEDIA-SEQUENCE", <<0>>),
       Line("", <<>>)>>
     \o VariantEntries(sourceURL, rendition, isVideo, segments)
     \o <<Line("#EXT-X-ENDLIST", <<>>)>>

\* Controller.VariantPlaylist on a source whose metadata Storage holds; ok: the
\* Storage calls of getMetadata succeed.
VariantPlaylist(c, sourceURL, isVideo, renditionName, ok) ==
  /\ metadata[sourceURL] # NoMeta
  /\ playlist' =
       IF ok
       THEN [kind |-> "playlist", caller |-> c, sourceURL |-> sourceURL,
             rendition |-> renditionName, isVideo |-> isVideo,
             text |-> Variant(sourceURL, renditionName, isVideo,
                              CalculateSegments(metadata[sourceURL].Keyframes,
                                                metadata[sourceURL].Duration,
                                                opts.TargetDuration))]
       ELSE [kind |-> "error", caller |-> c, sourceURL |-> sourceURL,
             rendition |-> renditionName, isVideo |-> isVideo,
             text |-> "get metadata"]
  /\ UNCHANGED <<metadata, store, opts, probed, coordVars, callVars, poolVars, workerVars>>

PlaylistKeyframes ==
  {kf \in UNION {[1 .. n -> KeyframeTimes] : n \in 0 .. MaxKeyframes} : Ascending(kf)}

PlaylistDurations == {0, 4, 8, 13, 18}

PlaylistSources ==
  {[MetaA EXCEPT !.Keyframes = kf, !.Duration = d] :
     kf \in PlaylistKeyframes, d \in PlaylistDurations}

PlaylistOptions == {[TargetDuration |-> td] : td \in {0, 2}}

PlaylistInit ==
  \E meta \in PlaylistSources, options \in PlaylistOptions : NewController(meta, options)

PlaylistNext ==
  \E c \in Clients, info \in Requests, ok \in BOOLEAN :
    VariantPlaylist(c, info.SourceURL, info.IsVideo, info.Rendition, ok) /\ Env(ok)

PlaylistSpec == PlaylistInit /\ [][PlaylistNext]_vars

\* The list behind the playlist VariantPlaylist returned last.
PlaylistSegments ==
  CalculateSegments(metadata[playlist.sourceURL].Keyframes,
                    metadata[playlist.sourceURL].Duration, opts.TargetDuration)

\* C29 (as the specification states it): for every non-empty keyframe table,
\* duration and target duration the segments of the list returned by
\* CalculateSegments have the indices 0, 1, 2, ..., the first starts at
\* keyframes[0], each ends where the next starts, and the last ends at the
\* duration.
C29_SegmentsCoverSource ==
  (playlist.kind = "playlist" /\ metadata[playlist.sourceURL].Keyframes # <<>>) =>
    LET segments == PlaylistSegments
    IN /\ \A n \in DOMAIN segments : segments[n].Index = n - 1
       /\ \A n \in DOMAIN segments :
            n < Len(segments) => segments[n].End = segments[n + 1].Start
       /\ segments # <<>> =>
            /\ segments[1].Start = metadata[playlist.sourceURL].Keyframes[1]
            /\ segments[Len(segments)].End = metadata[playlist.sourceURL].Duration

\* C30 (as the specification states it): CalculateSegments returns at least one
\* segment whenever the keyframe table is not empty, and every segment starts
\* before it ends; an empty table gives the empty list, a table of one keyframe
\* the one segment from keyframes[0] to the duration.
C30_AtLeastOneSegment ==
  playlist.kind = "playlist" =>
    LET segments == PlaylistSegments
        keyframes == metadata[playlist.sourceURL].Keyframes
        duration == metadata[playlist.sourceURL].Duration
    IN /\ keyframes # <<>> => Len(segments) >= 1
       /\ \A n \in DOMAIN segments : segments[n].Start < segments[n].End
       /\ keyframes = <<>> => segments = <<>>
       /\ Len(keyframes) = 1 =>
            segments = <<[Index |-> 0, Start |-> keyframes[1], End |-> duration,
                          Duration |-> duration - keyframes[1]]>>

\* The lines of the playlist that carry a duration or a path.
MediaLines(lines) ==
  SelectSeq(lines, LAMBDA l : l.tag = "#EXTINF" \/ (l.tag = "" /\ l.value # <<>>))

videoCodecString(video) ==
  CASE video.Height = 2160 -> "avc1.640033"
    [] video.Height = 1080 -> "avc1.640028"
    [] video.Height = 720 -> "avc1.64001f"
    [] video.Height = 480 -> "avc1.64001e"
    [] OTHER -> "avc1.640015"

\* playlist.Generator.Master: one media line per audio rendition, one stream
\* line with the path of its playlist per video rendition.
Master(sourceURL, videos, audios) ==
  [Media |-> [n \in DOMAIN audios |->
                [NAME |-> audios[n].Name, DEFAULT |-> audios[n].Name = "aac_stereo",
                 URI |-> <<sourceURL, audios[n].Name, AUDIO>>]],
   Streams |-> [n \in DOMAIN videos |->
                  [BANDWIDTH |-> videos[n].Bitrate,
                   RESOLUTION |-> <<videos[n].Width, videos[n].Height>>,
                   CODECS |-> <<videoCodecString(videos[n]), "mp4a.40.2">>,
                   URI |-> <<sourceURL, videos[n].Name, VIDEO>>]]]

\* Controller.MasterPlaylist on a source whose metadata Storage holds; ok: the
\* Storage calls of getMetadata succeed.
MasterPlaylist(c, sourceURL, ok) ==
  /\ metadata[sourceURL] # NoMeta
  /\ playlist' =
       IF ok
       THEN [kind |-> "master", caller |-> c, sourceURL |-> sourceURL,
             text |-> Master(sourceURL, GenerateVideo(metadata[sourceURL].Video),
                             IF Len(metadata[sourceURL].Audios) > 0
                             THEN GenerateAudio(metadata[sourceURL].Audios[1])
                             ELSE <<>>)]
       ELSE [kind |-> "error", caller |-> c, sourceURL |-> sourceURL,
             text |-> "get metadata"]
  /\ UNCHANGED <<metadata, store, opts, probed, coordVars, callVars, poolVars, workerVars>>

VideoSizes ==
  {<<3840, 2160>>, <<1920, 1080>>, <<1919, 800>>, <<1280, 720>>, <<854, 480>>,
   <<640, 360>>, <<320, 240>>}

VideoBitrates == {0, 200000, 3000000, 10000000, 30000000}

VideoStreams ==
  {[Codec |-> codec, Width |-> size[1], Height |-> size[2], Bitrate |-> bitrate] :
     codec \in {"h264", "hevc"}, size \in VideoSizes, bitrate \in VideoBitrates}

AudioStreams ==
  {<<>>, <<[Codec |-> "aac", Channels |-> 2, Bitrate |-> 128000]>>,
   <<[Codec |-> "ac3", Channels |-> 6, Bitrate |-> 640000]>>}

RenditionSources ==
  {[MetaA EXCEPT !.Video = video, !.Audios = audios] :
     video \in VideoStreams, audios \in AudioStreams}

RenditionInit == \E meta \in RenditionSources : InitWith(meta)

RenditionNext ==
  \E c \in Clients, sourceURL \in Sources, ok \in BOOLEAN :
    MasterPlaylist(c, sourceURL, ok) /\ Env(ok)

RenditionSpec == RenditionInit /\ [][RenditionNext]_vars

\* The video stream behind the playlist MasterPlaylist returned last.
MasterSource == metadata[playlist.sourceURL].Video

\* C31: for every source video stream, GenerateVideo returns one rendition for
\* each of the heights 2160, 1080, 720, 480, 360 that is not above the height
\* of the source, in that order; the bitrate of each lies within the bounds of
\* its height, its width is even and its height not above that of the source.
\* The master playlist lists them with these values.
C31_RenditionLadder ==
  playlist.kind = "master" =>
    LET renditions == GenerateVideo(MasterSource)
        heights == SelectSeq(<<2160, 1080, 720, 480, 360>>,
                             LAMBDA h : h <= MasterSource.Height)
        bounds == [h \in {2160, 1080, 720, 480, 360} |->
                     CASE h = 2160 -> <<8000000, 20000000>>
                       [] h = 1080 -> <<2000000, 8000000>>
                       [] h = 720 -> <<1000000, 4000000>>
                       [] h = 480 -> <<500000, 2000000>>
                       [] h = 360 -> <<300000, 1000000>>]
    IN /\ [n \in DOMAIN renditions |-> renditions[n].Height] = heights
       /\ \A n \in DOMAIN renditions :
            /\ bounds[renditions[n].Height][1] <= renditions[n].Bitrate
            /\ renditions[n].Bitrate <= bounds[renditions[n].Height][2]
            /\ renditions[n].Width % 2 = 0
            /\ renditions[n].Height <= MasterSource.Height
       /\ DOMAIN playlist.text.Streams = DOMAIN renditions
       /\ \A n \in DOMAIN renditions :
            /\ playlist.text.Streams[n].BANDWIDTH = renditions[n].Bitrate
            /\ playlist.text.Streams[n].RESOLUTION
                 = <<renditions[n].Width, renditions[n].Height>>

\* C31 witness: the master playlist of a 1919 x 800 source of the bitrate
\* 30000000 lists three renditions, 720p first, 1728 wide and at the maximum
\* bitrate of its height.
C31_Witness ==
  /\ playlist.kind = "master"
  /\ MasterSource.Width = 1919 /\ MasterSource.Bitrate = 30000000
  /\ Len(playlist.text.Streams) = 3
  /\ playlist.text.Streams[1].RESOLUTION = <<1728, 720>>
  /\ playlist.text.Streams[1].BANDWIDTH = 4000000

\* C32: a rendition GenerateVideo returns has the method direct_stream if and
\* only if the codec of the source is h264 and the height of the rendition is
\* that of the source; every other rendition has the method transcode.
C32_DirectStreamMethod ==
  playlist.kind = "master" =>
    \A n \in DOMAIN GenerateVideo(MasterSource) :
      LET r == GenerateVideo(MasterSource)[n]
      IN /\ r.Method \in {"direct_stream", "transcode"}
         /\ r.Method = "direct_stream"
              <=> (MasterSource.Codec = "h264" /\ r.Height = MasterSource.Height)

\* C32 witness: the master playlist of a 1080 lines high h264 source was
\* returned; its 1080p rendition is copied, its 720p rendition transcoded.
C32_Witness ==
  /\ playlist.kind = "master"
  /\ MasterSource.Codec = "h264" /\ MasterSource.Height = 1080
  /\ GenerateVideo(MasterSource)[1].Method = "direct_stream"
  /\ GenerateVideo(MasterSource)[2].Method = "transcode"
  /\ playlist.text.Streams[2].URI = <<"a", "720p", VIDEO>>

(***************************************************************************)
(* The command of a job: the keyframe to seek to and the segments.          *)
(***************************************************************************)
\* The greatest of a non-empty set of times.
Latest(times) == CHOOSE k \in times : \A e \in times : e <= k

\* C34 (as the specification states it): the keyframe processJob seeks to for a
\* direct-stream video job is findNearestKeyframe(keyframes, target) for the
\* start of its first segment: the greatest keyframe k <= target + 0.001,
\* except that it is the keyframe just before k when k is within 0.01 of the
\* target and an earlier keyframe exists; it is never behind target + 0.001.
C34_NearestKeyframe ==
  \A t \in StreamTypes :
    (DirectStream(t, wjob[t]) /\ params[t].Segments # <<>>) =>
      LET table == metadata[wjob[t].SourceURL].Keyframes
          keyframes == {1000 * table[n] : n \in DOMAIN table}
          target == 1000 * params[t].Segments[1].Start
          upTo == {k \in keyframes : k <= target + 1}
          k == Latest(upTo)
          earlier == {e \in keyframes : e < k}
      IN upTo # {} =>
           /\ params[t].ActualSeekKeyframe <= target + 1
           /\ params[t].ActualSeekKeyframe
                = IF target - k < 10 /\ earlier # {} THEN Latest(earlier) ELSE k

(***************************************************************************)
(* Prober.Probe.  ProbeSpec probes the sources up to MaxProbes times:       *)
(* source "a" has its metadata in Storage, source "b" has none until a      *)
(* Probe wrote it.                                                          *)
(***************************************************************************)
\* The document lacks the keyframes.
MarshalWithoutKeyframes(meta) == <<"json", [meta EXCEPT !.Keyframes = <<>>]>>

\* json.Marshal / json.Unmarshal of a Metadata: a document of its fields.
Marshal(meta) == <<"json", meta>>
Unmarshal(data) == data[2]

MaxProbes == 3

\* What the probe tool can report of a source.
ToolReports ==
  {MetaA,
   [MetaA EXCEPT !.Duration = 0],
   [MetaA EXCEPT !.Keyframes = <<>>, !.Audios = <<>>],
   [MetaA EXCEPT !.Video.Codec = "hevc", !.Video.Height = 1080, !.Video.Width = 1920]}

\* The call of Probe that fails, "nil" when none does.
ProbeOutcomes == {"nil", "MetadataExists", "GetMetadata", "probeStreams", "probeKeyframes",
                  "SetMetadata"}

\* Prober.Probe(sourceURL), the probe tool reporting found unless it fails.
ProberProbe(sourceURL, found, outcome) ==
  /\ probed.n < MaxProbes
  /\ LET exists == metadata[sourceURL] # NoMeta
         result(tool, sets, meta, err) ==
           [n |-> probed.n + 1, sourceURL |-> sourceURL, tool |-> tool, sets |-> sets,
            meta |-> meta, err |-> err]
     IN /\ outcome \in IF exists THEN {"nil", "MetadataExists", "GetMetadata"}
                       ELSE ProbeOutcomes \ {"GetMetadata"}
        /\ probed' =
             CASE outcome = "MetadataExists" -> result(0, 0, NoMeta, StorageError)
               [] outcome = "GetMetadata" -> result(0, 0, NoMeta, StorageError)
               [] outcome = "probeStreams" -> result(1, 0, NoMeta, ExitFailure)
               [] outcome = "probeKeyframes" -> result(2, 0, NoMeta, ExitFailure)
               [] outcome = "SetMetadata" -> result(2, 1, NoMeta, StorageError)
               [] outcome = "nil" /\ exists -> result(0, 0, metadata[sourceURL], NoError)
               [] outcome = "nil" /\ ~exists -> result(2, 1, found, NoError)
        /\ metadata' =
             IF outcome = "nil" /\ ~exists
             THEN [metadata EXCEPT ![sourceURL] = Unmarshal(Marshal(found))]
             ELSE metadata
  /\ UNCHANGED <<store, opts, playlist, coordVars, callVars, poolVars, workerVars>>

ProbeNext ==
  \E sourceURL \in Sources, found \in ToolReports, outcome \in ProbeOutcomes :
    ProberProbe(sourceURL, found, outcome) /\ Env(outcome = "nil")

\* Storage holds for source "a" what an earlier Probe stored.
ProbeInit == \E meta \in ToolReports : InitWith(meta)

ProbeSpec == ProbeInit /\ [][ProbeNext]_vars

C36_OneNotificationPerIndex ==
  \A t \in StreamTypes :
    (/\ wjob[t] # NoJob /\ job[t] = wjob[t] /\ loop[t] = "waitForWorker"
     /\ wstate[t] = "done")
    => /\ Uploaded(published[t])
          = [n \in 1 .. (wjob[t].EndIndex - wjob[t].StartIndex + 1) |->
               wjob[t].StartIndex + n - 1]
       /\ \A n \in DOMAIN published[t] :
            /\ published[t][n].state = "ready"
            /\ published[t][n].info = JobKey(t, wjob[t], published[t][n].info.Index)
            /\ published[t][n].info \in DOMAIN store

(***************************************************************************)
(* Jobs of transcoded renditions.  TranscodeSpec runs the Controller, the   *)
(* pools and the workers, nothing failing, on requests for the copied and a *)
(* transcoded video rendition and for the audio rendition of source "a", at *)
(* the start of the source and behind it.                                   *)
(***************************************************************************)
TranscodeRequests ==
  {Key("a", TRUE, r, i) : r \in {"720p", "480p"}, i \in {0, 2}}
  \cup {Key("a", FALSE, "aac_stereo", i) : i \in {0, 2}}

TranscodeNext ==
  \/ \E c \in Clients, info \in TranscodeRequests :
       SegmentCall(c, info, TRUE, TRUE) /\ Env(TRUE)
  \/ ControllerStart(TRUE, TRUE) /\ Env(TRUE)
  \/ \E c \in Clients : HappyCall(c) /\ Env(TRUE)
  \/ \E t \in StreamTypes : HappyPool(t) /\ Env(TRUE)
  \/ \E t \in StreamTypes : HappyWorker(t) /\ Env(TRUE)

TranscodeSpec == Init /\ [][TranscodeNext]_vars

\* C37 (as the specification states it): for a video job whose rendition is
\* transcoded and for every audio job, the command is built from the segments
\* with StartIndex <= index <= EndIndex and the worker is created with
\* skipFirst unset.
C37_WideningOnlyForDirectStream ==
  [][\A t \in StreamTypes :
       (loop[t] = "processJob" /\ loop'[t] = "waitForWorker"
          /\ ~DirectStream(t, job[t]))
       => /\ params'[t].Segments
             = SegmentsIn(job[t], job[t].StartIndex, job[t].EndIndex)
          /\ ~skipFirst'[t]]_vars

(***************************************************************************)
(* The end of a worker.  RunSpec is StopSpec with the goroutine of every    *)
(* worker scheduled as well.                                                *)
(***************************************************************************)
RunSpec == StopSpec /\ \A t \in StreamTypes : WF_vars(WorkerStep(t))

\* C38 (as the specification states it): a worker that is running is
\* eventually done or in error, whether its encoder exits by itself or its
\* context is cancelled.
C38_WorkerLeavesRunning ==
  \A t \in StreamTypes : (wstate[t] = "running") ~> (wstate[t] \in {"done", "error"})

(***************************************************************************)
(* The keys a worker writes.                                                *)
(***************************************************************************)
\* The worker calls WriteSegment in this step, with or without success.
Writes(t) ==
  /\ run[t] = "scan"
  /\ \/ run'[t] = "notify"
     \/ werr[t] = NoError /\ werr'[t] = WriteFailure

\* C39: with an encoder that prints one filename per segment of its command,
\* numbered from the index of the first, every WriteSegment of a worker is for
\* the source, the rendition and the stream kind of its job and for the index
\* of a segment of the job's range StartIndex .. EndIndex, never for
\* StartIndex - 1; and nothing else puts a segment into Storage.
C39_WritesWithinJobRange ==
  [][/\ \A t \in StreamTypes :
          Writes(t) =>
            /\ wjob[t] # NoJob
            /\ Uploading(t).SourceURL = wjob[t].SourceURL
            /\ Uploading(t).Rendition = wjob[t].Rendition
            /\ Uploading(t).IsVideo = (t = VIDEO)
            /\ wjob[t].StartIndex <= Uploading(t).Index
            /\ Uploading(t).Index <= wjob[t].EndIndex
            /\ Uploading(t) \in BatchOutput(t, wjob[t])
            /\ run'[t] = "notify" => Uploading(t) \in DOMAIN store'
     /\ \A k \in DOMAIN store' \ DOMAIN store :
          \E t \in StreamTypes : Writes(t) /\ k = Uploading(t)]_vars

\* C39 witness: the worker of a job for the segments 2 .. 3, started on a
\* command over the segments from 1, has written segment 2 and is about to
\* publish it; segment 1 is not in Storage.
C39_Witness ==
  /\ wjob[VIDEO] # NoJob /\ wjob[VIDEO].StartIndex = 2
  /\ params[VIDEO].Segments # <<>> /\ params[VIDEO].Segments[1].Index = 1
  /\ run[VIDEO] = "notify"
  /\ Uploading(VIDEO) = JobKey(VIDEO, wjob[VIDEO], 2)
  /\ Uploading(VIDEO) \in DOMAIN store
  /\ JobKey(VIDEO, wjob[VIDEO], 1) \notin DOMAIN store

(***************************************************************************)
(* A wait channel the Coordinator closes                                    *)
(***************************************************************************)
\* What a receive from a closed channel of SegmentStatus yields: the zero
\* value.  SegmentStateReady is the first constant of the iota block, so the
\* zero State is ready, and the zero Error is the empty string.
ZeroSegmentStatus == [state |-> "ready", error |-> ""]

\* The Coordinator closes the channel WaitSegment returned before any status
\* was sent on it.
CoordinatorClosesWait(c) ==
  /\ waitCh[c].state = "empty"
  /\ waitCh' = [waitCh EXCEPT ![c] = [state |-> "closed", error |-> ""]]
  /\ UNCHANGED <<storageVars, queue, acks, published, callVars, poolVars,
                 workerVars>>

\* select: case status := <-statusCh, on the closed channel.  The receive
\* does not block and the status is the zero value.
SegmentStatusClosed(c, readOk) ==
  /\ pc[c] = "select"
  /\ waitCh[c].state = "closed"
  /\ IF ZeroSegmentStatus.state = "error"
     THEN Return(c, req[c], Failure("segment error", ZeroSegmentStatus.error),
                 TRUE, TRUE)
     ELSE Return(c, req[c], ReadResult(req[c], readOk), TRUE, TRUE)
  /\ UNCHANGED <<storageVars, queue, acks, published, calls, nextID, poolVars,
                 workerVars>>

CloseNext ==
  \/ Next
  \/ \E c \in Clients : CoordinatorClosesWait(c) /\ Env(TRUE)
  \/ \E c \in Clients, readOk \in BOOLEAN :
       SegmentStatusClosed(c, readOk) /\ Env(readOk)

CloseSpec == Init /\ [][CloseNext]_vars

\* The Segment call of c leaves its select by calling Storage.ReadSegment.
ReadsAfterWaiting(c) ==
  /\ pc[c] = "select"
  /\ pc'[c] = "idle"
  /\ ret'.caller = c
  /\ ret'.result \in {ReadResult(req[c], TRUE), ReadResult(req[c], FALSE)}

\* C40: on the waiting path Segment calls Storage.ReadSegment only when a
\* status with state ready, sent for the key of the call, was delivered on its
\* wait channel; a channel closed without any status is not readiness.
C40_ReadOnlyAfterReady ==
  [][\A c \in Clients :
       ReadsAfterWaiting(c) => waitCh[c].state = "ready"]_vars

====
